---- MODULE Spec2Model ----
(***************************************************************************)
(* A model of liment, a menu-bar / tray application that polls a usage API *)
(* and renders the result.  The module holds several specifications, each  *)
(* over its own group of variables:                                        *)
(*                                                                         *)
(*   SpecTime     format_reset_time (utils/time.rs, main.rs)               *)
(*   SpecRender   rebuild_ui / populate_menu / bucket_row (macOS)          *)
(*   Spec         the macOS refresh scheduler: refresh, the main dispatch  *)
(*                queue, the config watcher (delegate.rs, watcher.rs,      *)
(*                main.rs)                                                 *)
(*   SpecProvider ClaudeCodeProvider: fetch_data, get, get_inner           *)
(*   SpecLinux    the Linux adapter: refresh thread and UiEvent polling    *)
(*                                                                         *)
(* Text is modelled as TLA+ strings.  An Option<T> is a sequence of length *)
(* 0 (None) or 1 (Some).  An f64 percentage is an integer in tenths of a   *)
(* percent, so that the casts `as u32` / `as i64` truncate.                *)
(***************************************************************************)
EXTENDS Integers, Sequences, FiniteSets, TLC

VARIABLES
  \* ---- SpecTime: one call of format_reset_time
  t_variant,      \* "jiff" (utils/time.rs) or "rfc3339" (main.rs)
  t_now,          \* Timestamp::now() / SystemTime::now(), epoch seconds
  t_resets_at,    \* the argument: epoch seconds (jiff) or the text's fields (rfc3339)
  t_out,          \* None before the call, Some(text) after it
  \* ---- the macOS status item (delegate.rs)
  display,        \* the delegate's display settings (AppDelegateIvars)
  placeholder,    \* provider.placeholder_lines()
  tray,           \* the tray button's image
  menu,           \* the status item's menu: a sequence of items
  last_data,      \* None, or Some(the argument of the last rebuild_ui)
  clock,          \* Timestamp::now() during a render pass
  \* ---- the macOS application: threads, queues, the config watcher
  variant,        \* "dispatch" (delegate.rs, watcher.rs) or "polling" (main.rs)
  launched,       \* applicationDidFinishLaunching has run
  provider,       \* generation of the provider handle the delegate holds
  cycles,         \* one record per refresh(): its worker thread and outcome
  main_queue,     \* DispatchQueue::main(): closures not yet run
  main_task,      \* None, or Some(the render pass the main thread is inside)
  call_log,       \* which thread made which call
  renders,        \* the cycles rebuild_ui / update_ui was called for, in order
  pass,           \* the display settings the last render pass read, per step
  button_title,   \* main.rs: the status item's title (None before launch)
  since_reload,   \* last_reload.elapsed(), in ms, capped at the debounce
  edits,          \* how many file events the watcher has received
  \* ---- SpecProvider: ClaudeCodeProvider (providers/claude_code.rs)
  p_server,       \* how the API answers: whom it authorises, where it fails
  p_keychain,     \* what fetch_keychain_token finds now: None or Some(token)
  p_token,        \* the content of self.token
  p_lock,         \* the thread holding the token mutex, 0 when it is free
  p_threads,      \* per calling thread: where its fetch_data call stands
  \* ---- SpecLinux: the tray of platform/linux/tray.rs
  l_tray,         \* LinuxTray's usage and profile fields
  l_popup,        \* what update_popup last showed: None while "Loading"
  l_chan,         \* the mpsc channel of UiEvents
  l_periodic,     \* the single refresh thread
  l_manual,       \* the threads spawned by manual refreshes
  l_clicks,       \* how many manual refreshes were requested
  \* ---- SpecWatcher: the watcher thread of watch_config (watcher.rs)
  w_now,          \* the time, in ms since the thread started
  w_last_reload,  \* last_reload, as a time in ms
  w_queue,        \* the closures given to the main queue, not yet run
  w_active,       \* the display settings in effect
  w_reloads,      \* the times at which reload_config was dispatched
  w_last,         \* what the last iteration of the loop saw and did
  w_warned,       \* how many iterations ended in the warning of line 67
  w_events,       \* how many events the thread has received
  \* ---- SpecProvider: CliproxyClaudeProvider (providers/cliproxy_claude.rs)
  x_last,         \* the last fetch_data call on the proxied provider: None, or what it met and returned
  x_fetches,      \* how many fetch_data calls the proxied provider has had
  \* ---- SpecWindows: the tray of platform/windows/tray.rs
  v_state,        \* SharedState: usage and profile
  v_tooltip,      \* the tooltip of the tray icon
  v_posted,       \* WM_DATA_UPDATE messages posted and not yet processed
  v_bg,           \* the background fetch thread
  v_manual,       \* the threads of spawn_refresh
  v_clicks,       \* how many times Refresh was chosen in the context menu
  v_seen,         \* state.usage as the last WM_DATA_UPDATE found it (None: no message yet)
  \* ---- SpecToken: the first acquisition of the token (claude_code.rs, util.rs)
  k_entry,        \* which entry point acquires the token
  k_settings,     \* ClaudeCodeSettings.token
  k_env,          \* the environment variable ANTHROPIC_LIMITS_TRAY_TOKEN
  k_keychain,     \* what fetch_keychain_token finds: None or Some(token)
  k_token,        \* None before the acquisition, then Some(its result)
  k_refreshes,    \* how many times a 401 made the provider ask the keychain
  \* ---- SpecDebug: DebugProvider (providers/debug.rs)
  d_wrapped,      \* the provider DebugProvider::new was given
  d_secs,         \* SystemTime::now() since the epoch, in tenths of a second
  d_out           \* None, or Some of what the last fetch_data call saw and returned

timeVars == <<t_variant, t_now, t_resets_at, t_out>>
statusVars == <<display, placeholder, tray, menu, last_data, clock>>
schedVars == <<variant, launched, provider, cycles, main_queue, main_task, call_log,
               renders, pass, button_title, since_reload, edits>>
provVars == <<p_server, p_keychain, p_token, p_lock, p_threads>>
linuxVars == <<l_tray, l_popup, l_chan, l_periodic, l_manual, l_clicks>>
watchVars == <<w_now, w_last_reload, w_queue, w_active, w_reloads, w_last, w_warned, w_events>>
proxyVars == <<x_last, x_fetches>>
winVars == <<v_state, v_tooltip, v_posted, v_bg, v_manual, v_clicks, v_seen>>
tokenVars == <<k_entry, k_settings, k_env, k_keychain, k_token, k_refreshes>>
debugVars == <<d_wrapped, d_secs, d_out>>

vars == <<timeVars, statusVars, schedVars, provVars, linuxVars, watchVars, proxyVars, winVars, tokenVars, debugVars>>

\* What the actions of one specification leave alone
exceptTime == <<statusVars, schedVars, provVars, linuxVars, watchVars, proxyVars, winVars, tokenVars, debugVars>>
exceptStatus == <<timeVars, schedVars, provVars, linuxVars, watchVars, proxyVars, winVars, tokenVars, debugVars>>
exceptApp == <<timeVars, provVars, linuxVars, watchVars, proxyVars, winVars, tokenVars, debugVars>>
exceptProv == <<timeVars, statusVars, schedVars, linuxVars, watchVars, proxyVars, winVars, tokenVars, debugVars>>
exceptLinux == <<timeVars, statusVars, schedVars, provVars, watchVars, proxyVars, winVars, tokenVars, debugVars>>
exceptWatch == <<timeVars, statusVars, schedVars, provVars, linuxVars, proxyVars, winVars, tokenVars, debugVars>>
exceptProxy == <<timeVars, statusVars, schedVars, provVars, linuxVars, watchVars, winVars, tokenVars, debugVars>>
exceptWin == <<timeVars, statusVars, schedVars, provVars, linuxVars, watchVars, proxyVars, tokenVars, debugVars>>
exceptToken == <<timeVars, statusVars, schedVars, provVars, linuxVars, watchVars, proxyVars, winVars, debugVars>>
exceptDebug == <<timeVars, statusVars, schedVars, provVars, linuxVars, watchVars, proxyVars, winVars, tokenVars>>

None == <<>>
Some(x) == <<x>>

Max(a, b) == IF a >= b THEN a ELSE b
Min(a, b) == IF a <= b THEN a ELSE b

(***************************************************************************)
(* Rust's format! machinery, as far as the program uses it.                *)
(***************************************************************************)
DigitStr(d) ==
  CASE d = 0 -> "0" [] d = 1 -> "1" [] d = 2 -> "2" [] d = 3 -> "3"
    [] d = 4 -> "4" [] d = 5 -> "5" [] d = 6 -> "6" [] d = 7 -> "7"
    [] d = 8 -> "8" [] d = 9 -> "9"

RECURSIVE FmtNat(_)
FmtNat(n) == IF n < 10 THEN DigitStr(n) ELSE FmtNat(n \div 10) \o DigitStr(n % 10)

\* "{}" of a signed integer
FmtInt(n) == IF n < 0 THEN "-" \o FmtNat(-n) ELSE FmtNat(n)

\* "{:>w$}": right-aligned in a field of w characters, padded with spaces
RECURSIVE PadLeft(_, _)
PadLeft(s, w) == IF Len(s) >= w THEN s ELSE PadLeft(" " \o s, w)

\* "{:02}"
Pad2(n) == IF n < 10 THEN "0" \o FmtNat(n) ELSE FmtNat(n)

(***************************************************************************)
(* format_reset_time                                                       *)
(***************************************************************************)
\* format_diff with `diff == 0` in place of `diff <= 0`.
format_diff_zero_only(diff) ==
  LET days  == diff \div 86400
      hours == (diff % 86400) \div 3600
      mins  == (diff % 3600) \div 60
  IN  IF diff = 0 THEN "now"
      ELSE IF days > 0 THEN FmtInt(days) \o "d " \o FmtInt(hours) \o "h"
      ELSE IF hours > 0 THEN FmtInt(hours) \o "h " \o FmtInt(mins) \o "m"
      ELSE FmtInt(mins) \o "m"

\* The body shared by every copy of format_reset_time once the difference
\* in seconds is known (Rust's / and % on a positive i64).
format_diff(diff) ==
  IF diff <= 0 THEN "now"
  ELSE LET days  == diff \div 86400
           hours == (diff % 86400) \div 3600
           mins  == (diff % 3600) \div 60
       IN  IF days > 0 THEN FmtInt(days) \o "d " \o FmtInt(hours) \o "h"
           ELSE IF hours > 0 THEN FmtInt(hours) \o "h " \o FmtInt(mins) \o "m"
           ELSE FmtInt(mins) \o "m"

\* utils/time.rs (and its copies in util.rs, api.rs, utils/macos.rs)
format_reset_time(resets_at, now) == format_diff(resets_at - now)

\* main.rs: the reset time arrives as RFC 3339 text.  The text is modelled
\* by the fields the parser slices out of it; tz is the offset text's
\* signed (hours, minutes), or Z.
is_leap(y) == (y % 4 = 0 /\ y % 100 # 0) \/ (y % 400 = 0)

month_days == <<31, 28, 31, 30, 31, 30, 31, 31, 30, 31, 30, 31>>

RECURSIVE days_before_year(_)
days_before_year(year) ==
  IF year <= 1970 THEN 0
  ELSE days_before_year(year - 1) + (IF is_leap(year - 1) THEN 366 ELSE 365)

RECURSIVE days_before_month(_, _)
days_before_month(year, month) ==
  IF month <= 1 THEN 0
  ELSE days_before_month(year, month - 1) + month_days[month - 1]
       + (IF month - 1 = 2 /\ is_leap(year) THEN 1 ELSE 0)

parse_rfc3339_timestamp(s) ==
  LET tz_offset_secs ==
        IF s.z THEN 0 ELSE s.tz_sign * (s.tz_h * 3600 + s.tz_m * 60)
      days == days_before_year(s.year) + days_before_month(s.year, s.month)
              + (s.day - 1)
  IN  days * 86400 + s.hour * 3600 + s.min * 60 + s.sec - tz_offset_secs

main_format_reset_time(resets_at, now) ==
  format_diff(parse_rfc3339_timestamp(resets_at) - now)

(***************************************************************************)
(* SpecTime: the inputs of one call, then the call.                        *)
(***************************************************************************)
\* Clock readings, epoch seconds.  1972-03-01T00:00:00Z is day 790.
NowBase == 790 * 86400

\* How far the model's clock readings spread around NowBase, in seconds.
MaxNowSkew == 1

Nows == {NowBase + k : k \in 0..MaxNowSkew}

\* Differences resets_at - now that sit on and around every boundary of the
\* format, and the claim's own examples (0, 90 min, 2 d 3 h).
Diffs ==
  {-86400, -61, -1, 0, 1, 59, 60, 61, 119, 3599, 3600, 3601, 5400, 7199,
   7200, 86399, 86400, 86401, 90000, 172799, 172800, 183600, 259200}

Rfc(y, mo, d, h, mi, s, z, sign, tzh, tzm) ==
  [year |-> y, month |-> mo, day |-> d, hour |-> h, min |-> mi, sec |-> s,
   z |-> z, tz_sign |-> sign, tz_h |-> tzh, tz_m |-> tzm]

\* RFC 3339 texts around NowBase: before and after it, over the leap day,
\* with Z and with numeric offsets of either sign.
RfcTexts ==
  { Rfc(1972, 3, 1, 0, 0, 0, TRUE, 1, 0, 0),
    Rfc(1972, 3, 1, 0, 0, 1, TRUE, 1, 0, 0),
    Rfc(1972, 2, 29, 23, 59, 59, TRUE, 1, 0, 0),
    Rfc(1972, 3, 1, 0, 1, 0, FALSE, 1, 0, 0),
    Rfc(1972, 3, 1, 1, 30, 0, TRUE, 1, 0, 0),
    Rfc(1972, 3, 1, 3, 30, 0, FALSE, 1, 2, 0),
    Rfc(1972, 2, 29, 20, 30, 0, FALSE, -1, 5, 0),
    Rfc(1972, 3, 3, 3, 0, 0, TRUE, 1, 0, 0),
    Rfc(1972, 3, 3, 8, 30, 0, FALSE, 1, 5, 30),
    Rfc(1972, 3, 2, 0, 0, 0, TRUE, 1, 0, 0),
    Rfc(1972, 3, 1, 23, 59, 59, TRUE, 1, 0, 0),
    Rfc(1971, 12, 31, 23, 59, 59, TRUE, 1, 0, 0),
    Rfc(1973, 1, 1, 0, 0, 0, TRUE, 1, 0, 0) }

TimeInit ==
  /\ t_now \in Nows
  /\ \/ /\ t_variant = "jiff"
        /\ t_resets_at \in {n + d : n \in Nows, d \in Diffs}
     \/ /\ t_variant = "rfc3339"
        /\ t_resets_at \in RfcTexts
  /\ t_out = None

\* utils/time.rs:3-24
CallFormatResetTime ==
  /\ t_variant = "jiff"
  /\ t_out = None
  /\ t_out' = Some(format_reset_time(t_resets_at, t_now))
  /\ UNCHANGED <<t_variant, t_now, t_resets_at, exceptTime>>

\* main.rs:107-135
CallMainFormatResetTime ==
  /\ t_variant = "rfc3339"
  /\ t_out = None
  /\ t_out' = Some(main_format_reset_time(t_resets_at, t_now))
  /\ UNCHANGED <<t_variant, t_now, t_resets_at, exceptTime>>

TimeNext == CallFormatResetTime \/ CallMainFormatResetTime

TimeIdle == t_variant = "jiff" /\ t_now = NowBase /\ t_resets_at = NowBase /\ t_out = None

(***************************************************************************)
(* The usage model (providers/mod.rs) and into_usage_data.                 *)
(*                                                                         *)
(*   UsageBucket  [utilization, resets_at : Option]                        *)
(*   ExtraUsage   [is_enabled, monthly_limit, used_credits]   (cents)      *)
(*   UsageWindow  [title, short_title : Option, utilization,               *)
(*                 resets_at : Option, period_seconds : Option]            *)
(*   UsageData    [account_tier : Option, api_usage : Option, windows]     *)
(***************************************************************************)
Bucket(u, r) == [utilization |-> u, resets_at |-> r]

\* SubscriptionTier::tier_info (claude_code.rs:64-76, Display at 78-87)
tier_info(t) ==
  [name  |-> CASE t = "Free" -> "Free" [] t = "Pro" -> "Pro"
               [] t = "Max5x" -> "Max 5x" [] t = "Max20x" -> "Max 20x",
   color |-> CASE t = "Free" -> <<140, 140, 155>> [] t = "Pro" -> <<90, 145, 210>>
               [] t = "Max5x" -> <<145, 110, 200>> [] t = "Max20x" -> <<205, 130, 95>>]

\* The bucket table of into_usage_data (claude_code.rs:104-109)
buckets(usage) ==
  << <<"5h Limit", Some("5h"), usage.five_hour, 5 * 3600>>,
     <<"7d Limit", Some("7d"), usage.seven_day, 7 * 86400>>,
     <<"7d Sonnet", None, usage.seven_day_sonnet, 7 * 86400>>,
     <<"7d Opus", None, usage.seven_day_opus, 7 * 86400>> >>

\* The loop of into_usage_data (claude_code.rs:111-123): a bucket yields a
\* window only when it is present and its resets_at is present.
RECURSIVE push_windows(_, _)
push_windows(bs, i) ==
  IF i > Len(bs) THEN <<>>
  ELSE LET b == bs[i][3]
       IN  (IF b # None /\ b[1].resets_at # None
              THEN << [title |-> bs[i][1], short_title |-> bs[i][2],
                       utilization |-> b[1].utilization,
                       resets_at |-> b[1].resets_at,
                       period_seconds |-> Some(bs[i][4])] >>
              ELSE <<>>)
           \o push_windows(bs, i + 1)

\* into_usage_data carrying the extra usage whenever the response has it.
into_usage_data_ignores_is_enabled(usage, profile) ==
  [account_tier |-> IF profile = None THEN None ELSE Some(tier_info(profile[1])),
   api_usage |->
     IF usage.extra_usage = None THEN None
     ELSE Some([usage_usd |-> usage.extra_usage[1].used_credits,
                limit_usd |-> Some(usage.extra_usage[1].monthly_limit)]),
   windows |-> push_windows(buckets(usage), 1)]

\* into_usage_data (claude_code.rs:89-126).  Money stays in cents: the
\* division by 100.0 is done where the amount is formatted.
into_usage_data(usage, profile) ==
  [account_tier |-> IF profile = None THEN None ELSE Some(tier_info(profile[1])),
   api_usage |->
     IF usage.extra_usage = None \/ ~usage.extra_usage[1].is_enabled THEN None
     ELSE Some([usage_usd |-> usage.extra_usage[1].used_credits,
                limit_usd |-> Some(usage.extra_usage[1].monthly_limit)]),
   windows |-> push_windows(buckets(usage), 1)]

(***************************************************************************)
(* Rendering: components.rs, views.rs, delegate.rs                         *)
(***************************************************************************)
\* `x as u32` / `x as i64` of an f64 held in tenths: truncation toward
\* zero, saturating at the type's bounds (a negative value gives 0 as u32;
\* the upper bounds are beyond every value held here).
AsI64(x10) == IF x10 >= 0 THEN x10 \div 10 ELSE -((-x10) \div 10)
AsU32(x10) == IF x10 <= 0 THEN 0 ELSE x10 \div 10

RECURSIVE ilog10(_)
ilog10(v) == IF v < 10 THEN 0 ELSE 1 + ilog10(v \div 10)

\* "{:.0}" of the f64 num/den (den > 0): the nearest integer, ties to even.
RoundHalfEven(num, den) ==
  LET q == num \div den
      r == num % den
  IN  IF 2 * r < den THEN q
      ELSE IF 2 * r > den THEN q + 1
      ELSE IF q % 2 = 0 THEN q ELSE q + 1

\* "${:.2}" of an amount held in cents
FmtUsd(cents) == "$" \o FmtNat(cents \div 100) \o "." \o Pad2(cents % 100)

\* format_absolute_time (utils/time.rs:26-29), for a system time zone of
\* UTC and instants of March 1972 (the month of NowBase).
format_absolute_time(resets_at) ==
  LET t == resets_at - NowBase
  IN  Pad2(1 + t \div 86400) \o "." \o Pad2(3) \o ", "
      \o Pad2((t % 86400) \div 3600) \o ":" \o Pad2((t % 3600) \div 60)

Item(kind, text, sub, value) == [kind |-> kind, text |-> text, sub |-> sub, value |-> value]

separatorItem == Item("separator", "", None, 0)
refresh_item == Item("action", "Refresh", None, 0)
open_config_item == Item("action", "Open Config...", None, 0)
quit_item == Item("action", "Quit", None, 0)

\* progress_row (components.rs:89-...): the label "<label>  <n>%", the
\* optional reset text, and the progress bar's value.
progress_row(label, utilization, reset_str) ==
  Item("bucket", label \o "  " \o FmtInt(AsI64(utilization)) \o "%", reset_str, utilization)

\* bucket_row's elapsed share of the period, without the clamp.
period_pct_unclamped(resets_at, period_seconds, display_format) ==
  LET remaining == resets_at - clock
  IN  IF period_seconds # None /\ remaining > 0 /\ period_seconds[1] > 0
        THEN LET period == period_seconds[1]
                 en == (period - remaining) * 100
                 dn == IF display_format = "remaining" THEN 100 * period - en ELSE en
             IN  Some(IF dn >= 0 THEN RoundHalfEven(dn, period)
                      ELSE -RoundHalfEven(-dn, period))
        ELSE None

\* bucket_row (components.rs:67-79): the percentage put after the reset
\* text, as "{:.0}" prints it, or None when none is put there.  elapsed_pct
\* is held as the fraction en / period.
period_pct(resets_at, period_seconds, display_format) ==
  LET remaining == resets_at - clock
  IN  IF period_seconds # None /\ remaining > 0 /\ period_seconds[1] > 0
        THEN LET period == period_seconds[1]
                 en == Max(0, Min(100 * period, (period - remaining) * 100))
                 dn == IF display_format = "remaining" THEN 100 * period - en ELSE en
             IN  Some(RoundHalfEven(dn, period))
        ELSE None

\* bucket_row (components.rs:49-87).  reset_time_format is "absolute" or
\* "relative", display_format is "remaining" or "usage".
bucket_row(label, utilization, resets_at, period_seconds, reset_time_format, display_format) ==
  LET reset_str ==
        IF resets_at = None THEN None
        ELSE LET base == IF reset_time_format = "absolute"
                           THEN "reset: " \o format_absolute_time(resets_at[1])
                           ELSE "resets in " \o format_reset_time(resets_at[1], clock)
                 pct == period_pct(resets_at[1], period_seconds, display_format)
             IN  IF pct # None
                   THEN Some(base \o " (" \o FmtInt(pct[1]) \o "%)")
                   ELSE Some(base)
      shown == IF display_format = "remaining" THEN 1000 - utilization ELSE utilization
  IN  progress_row(label, shown, reset_str)

\* header_row (components.rs): the title and the optional tier badge
header_row(title, tier) ==
  Item("header", title, IF tier = None THEN None ELSE Some(tier[1].name), 0)

\* loading_menu (views.rs:8-20)
loading_menu ==
  << Item("disabled", "Loading...", None, 0), separatorItem,
     refresh_item, open_config_item, quit_item >>

\* populate_menu (views.rs:22-73), reading the delegate's display settings
\* d.  It hands bucket_row the booleans absolute_time and is_remaining,
\* which are bucket_row's reset_time_format and display_format.
populate_menu(data, d) ==
  LET is_remaining == d.display_mode = "remaining"
      show_period_pct == d.show_period_percentage
      absolute_time == d.reset_time_format = "absolute"
      row(window) ==
        LET display_util == IF is_remaining THEN 1000 - window.utilization
                            ELSE window.utilization
        IN  bucket_row(window.title, display_util, window.resets_at,
                       IF show_period_pct THEN window.period_seconds ELSE None,
                       IF absolute_time THEN "absolute" ELSE "relative",
                       IF is_remaining THEN "remaining" ELSE "usage")
      extra ==
        IF data.api_usage = None THEN <<>>
        ELSE LET a == data.api_usage[1]
             IN  << separatorItem,
                    Item("label", "Extra Usage", None, 0),
                    Item("key_value", "Spent",
                         Some(IF a.limit_usd # None
                                THEN FmtUsd(a.usage_usd) \o " / " \o FmtUsd(a.limit_usd[1])
                                ELSE FmtUsd(a.usage_usd)), 0) >>
  IN  << header_row("Usage", data.account_tier) >>
      \o [i \in 1..Len(data.windows) |-> row(data.windows[i])]
      \o extra
      \o << separatorItem, refresh_item, open_config_item, quit_item >>

\* utilization_color (delegate.rs:319-326), pct = p / 100.0 with p in tenths
utilization_color(p) ==
  IF p < 500 THEN "controlText" ELSE IF p < 750 THEN "yellow"
  ELSE IF p < 900 THEN "orange" ELSE "red"

\* build_tray_image (delegate.rs:265-315): what the image shows
build_tray_image(line1, p1, line2, p2, monochrome) ==
  [line1 |-> line1, color1 |-> utilization_color(p1),
   line2 |-> line2, color2 |-> utilization_color(p2), monochrome |-> monochrome]

\* rebuild_ui with a failure placeholder that reads like a number.
rebuild_ui_failed_as_zero(d, ph) ==
  build_tray_image(ph[1] \o " 0%", 0, ph[2] \o " 0%", 0, d.monochrome_icon)

\* rebuild_ui, data = None (delegate.rs:196-209): the tray image
rebuild_ui_failed(d, ph) ==
  build_tray_image(ph[1] \o " --", 0, ph[2] \o " --", 0, d.monochrome_icon)

\* rebuild_ui's tray image from the first two windows, short title or not.
rebuild_ui_tray_first_two(data, d) ==
  LET w0 == IF Len(data.windows) >= 1 THEN Some(data.windows[1]) ELSE None
      w1 == IF Len(data.windows) >= 2 THEN Some(data.windows[2]) ELSE None
      is_remaining == d.display_mode = "remaining"
      pct(w) == IF w = None THEN 0
                ELSE IF is_remaining THEN 1000 - w[1].utilization ELSE w[1].utilization
      v0 == AsU32(pct(w0))
      v1 == AsU32(pct(w1))
      w  == Max(ilog10(Max(v0, 1)) + 1, ilog10(Max(v1, 1)) + 1)
      label(x) == IF x = None \/ x[1].short_title = None THEN "--" ELSE x[1].short_title[1]
  IN  build_tray_image(label(w0) \o " " \o PadLeft(FmtNat(v0), w) \o "%", pct(w0),
                       label(w1) \o " " \o PadLeft(FmtNat(v1), w) \o "%", pct(w1),
                       d.monochrome_icon)

\* rebuild_ui, data = Some (delegate.rs:211-231): the tray image
rebuild_ui_tray(data, d) ==
  LET tray_windows == SelectSeq(data.windows, LAMBDA w : w.short_title # None)
      w0 == IF Len(tray_windows) >= 1 THEN Some(tray_windows[1]) ELSE None
      w1 == IF Len(tray_windows) >= 2 THEN Some(tray_windows[2]) ELSE None
      is_remaining == d.display_mode = "remaining"
      pct(w) == IF w = None THEN 0
                ELSE IF is_remaining THEN 1000 - w[1].utilization ELSE w[1].utilization
      p0 == pct(w0)
      p1 == pct(w1)
      v0 == AsU32(p0)
      v1 == AsU32(p1)
      w  == Max(ilog10(Max(v0, 1)) + 1, ilog10(Max(v1, 1)) + 1)
      label0 == IF w0 = None THEN "--" ELSE w0[1].short_title[1]
      label1 == IF w1 = None THEN "--" ELSE w1[1].short_title[1]
      line1 == label0 \o " " \o PadLeft(FmtNat(v0), w) \o "%"
      line2 == label1 \o " " \o PadLeft(FmtNat(v1), w) \o "%"
  IN  build_tray_image(line1, p0, line2, p1, d.monochrome_icon)

\* The tray image AppDelegate::new sets (delegate.rs:146-154)
loading_tray(d, ph) ==
  build_tray_image(ph[1] \o " ..", 0, ph[2] \o " ..", 0, d.monochrome_icon)

\* The text of a tray image: its two lines
TrayText(img) == <<img.line1, img.line2>>

\* rebuild_ui with a failed outcome emptying the menu.
rebuild_ui_failure_empties_menu(data, d, ph, cur_menu) ==
  [tray |-> IF data = None THEN rebuild_ui_failed(d, ph) ELSE rebuild_ui_tray(data[1], d),
   menu |-> IF data = None THEN <<>> ELSE populate_menu(data[1], d)]

\* rebuild_ui with a failed outcome putting the loading menu back.
rebuild_ui_failure_loading_menu(data, d, ph, cur_menu) ==
  [tray |-> IF data = None THEN rebuild_ui_failed(d, ph) ELSE rebuild_ui_tray(data[1], d),
   menu |-> IF data = None THEN loading_menu ELSE populate_menu(data[1], d)]

\* rebuild_ui with populate_menu adding to the items the menu holds.
rebuild_ui_keeps_items(data, d, ph, cur_menu) ==
  [tray |-> IF data = None THEN rebuild_ui_failed(d, ph) ELSE rebuild_ui_tray(data[1], d),
   menu |-> IF data = None THEN cur_menu ELSE cur_menu \o populate_menu(data[1], d)]

\* rebuild_ui (delegate.rs:192-240): the tray image and the menu it leaves.
\* A failed outcome replaces the tray image and returns before the menu is
\* touched; a snapshot replaces both.
rebuild_ui(data, d, ph, cur_menu) ==
  [tray |-> IF data = None THEN rebuild_ui_failed(d, ph) ELSE rebuild_ui_tray(data[1], d),
   menu |-> IF data = None THEN cur_menu ELSE populate_menu(data[1], d)]

\* provider.placeholder_lines() (called at delegate.rs:148 and 198): the
\* two labels of the tray lines.  Its body is not part of the sources; the
\* labels are drawn from the values below.
placeholder_lines == { <<"5h", "7d">>, <<"--", "--">> }

(***************************************************************************)
(* SpecRender: rebuild_ui applied to fetch outcomes.                       *)
(***************************************************************************)
\* Utilizations in tenths of a percent, with the corners of [0, 100] and
\* values outside it.
UtilValues == {-50, 0, 5, 300, 500, 995, 1000, 1205}

T5h == NowBase + 5400
T7d == NowBase + 183600

ExtraUsage(e, l, u) == [is_enabled |-> e, monthly_limit |-> l, used_credits |-> u]

UsageResponse(f, s, so, o, e) ==
  [five_hour |-> f, seven_day |-> s, seven_day_sonnet |-> so,
   seven_day_opus |-> o, extra_usage |-> e]

\* Responses of the usage endpoint: one family varies the 5h bucket, the
\* other the presence of the other buckets and of the extra usage.
UsageResponses ==
  { UsageResponse(f, s, None, None, None) :
      f \in {None, Some(Bucket(300, None)), Some(Bucket(300, Some(NowBase - 60))),
             Some(Bucket(300, Some(NowBase + 20000)))}
            \cup {Some(Bucket(u, Some(T5h))) : u \in UtilValues},
      s \in {None, Some(Bucket(420, Some(T7d)))} }
  \cup
  { UsageResponse(Some(Bucket(300, Some(T5h))), s, so, o, e) :
      s \in {None, Some(Bucket(1000, Some(T7d)))},
      so \in {None, Some(Bucket(70, Some(T7d)))},
      o \in {None, Some(Bucket(0, Some(T7d)))},
      e \in {None, Some(ExtraUsage(FALSE, 5000, 1234)), Some(ExtraUsage(TRUE, 5000, 1234))} }

Profiles == {None, Some("Pro"), Some("Max20x")}

\* What fetch_data returns on success (claude_code.rs:248-254)
Snapshots ==
  { into_usage_data(u, None) : u \in UsageResponses }
  \cup { into_usage_data(UsageResponse(Some(Bucket(300, Some(T5h))), None, None, None, None), p) :
           p \in Profiles }

DisplayModes == {"usage", "remaining"}

\* The display settings the delegate holds (delegate.rs:165-169)
Displays ==
  [monochrome_icon : BOOLEAN, display_mode : DisplayModes,
   show_period_percentage : BOOLEAN, reset_time_format : {"relative", "absolute"},
   refetch_interval : {60}]

\* AppDelegate::new (delegate.rs:142-174)
StatusInit ==
  /\ display \in Displays
  /\ placeholder \in placeholder_lines
  /\ tray = loading_tray(display, placeholder)
  /\ menu = loading_menu
  /\ last_data = None
  /\ clock = NowBase

StatusIdle ==
  /\ display = [monochrome_icon |-> FALSE, display_mode |-> "usage",
                show_period_percentage |-> FALSE, reset_time_format |-> "relative",
                refetch_interval |-> 60]
  /\ placeholder = <<"5h", "7d">>
  /\ tray = loading_tray(display, placeholder)
  /\ menu = loading_menu
  /\ last_data = None
  /\ clock = NowBase

\* rebuild_ui(None)
RebuildUiNone ==
  /\ tray' = rebuild_ui(None, display, placeholder, menu).tray
  /\ menu' = rebuild_ui(None, display, placeholder, menu).menu
  /\ last_data' = Some(None)
  /\ UNCHANGED <<display, placeholder, clock, exceptStatus>>

\* rebuild_ui(Some(data))
RebuildUiSome(data) ==
  /\ tray' = rebuild_ui(Some(data), display, placeholder, menu).tray
  /\ menu' = rebuild_ui(Some(data), display, placeholder, menu).menu
  /\ last_data' = Some(Some(data))
  /\ UNCHANGED <<display, placeholder, clock, exceptStatus>>

RenderNext == RebuildUiNone \/ \E data \in Snapshots : RebuildUiSome(data)

(***************************************************************************)
(* Spec: the macOS application.  In the "dispatch" variant (delegate.rs,   *)
(* watcher.rs) worker threads and the config watcher hand closures to      *)
(* DispatchQueue::main(); in the "polling" variant (main.rs) the worker    *)
(* sends on a channel that a 0.25 s timer of the run loop polls.           *)
(***************************************************************************)
MaxCycles == 3
MaxEdits == 1

\* Duration::from_millis(200) of the debounce, and the step of the clock
DebounceMs == 200
TickMs == 100

ConfigA ==
  [monochrome_icon |-> FALSE, display_mode |-> "usage",
   show_period_percentage |-> FALSE, reset_time_format |-> "relative",
   refetch_interval |-> 60]

ConfigB ==
  [monochrome_icon |-> TRUE, display_mode |-> "remaining",
   show_period_percentage |-> TRUE, reset_time_format |-> "absolute",
   refetch_interval |-> 30]

\* Texts the config file can hold, and toml_edit::de::from_str on them
\* (watcher.rs:52): Some(config), or None for a parse error.
ConfigTexts == {"mode-usage", "mode-remaining", "garbage"}

parse_config(text) ==
  CASE text = "mode-usage" -> Some(ConfigA)
    [] text = "mode-remaining" -> Some(ConfigB)
    [] OTHER -> None

\* notify::EventKind, as far as is_content_change tells them apart, and
\* "Error" for an Err(_) received from the watcher.
EventKinds == {"Modify(Data)", "Modify(Name)", "Create", "Access", "Remove", "Error"}

\* is_content_change (watcher.rs:14-19)
is_content_change(kind) == kind \in {"Modify(Data)", "Modify(Name)", "Create"}

\* The closure of one iteration of the watcher's loop (watcher.rs:38-64),
\* with every failure ending the reload as well as the success does.
watch_config_iteration_reload_anyway(kind, content, elapsed) ==
  [reload |-> kind # "Error" /\ is_content_change(kind) /\ ~(elapsed < DebounceMs),
   config |-> IF content # None /\ parse_config(content[1]) # None
                THEN parse_config(content[1]) ELSE Some(ConfigA),
   err |-> FALSE]

\* The closure of one iteration of the watcher's loop (watcher.rs:38-64),
\* without the debounce of line 47.
watch_config_iteration_no_debounce(kind, content, elapsed) ==
  IF kind = "Error" THEN [reload |-> FALSE, config |-> None, err |-> TRUE]
  ELSE IF ~is_content_change(kind) THEN [reload |-> FALSE, config |-> None, err |-> FALSE]
  ELSE IF content = None \/ parse_config(content[1]) = None
    THEN [reload |-> FALSE, config |-> None, err |-> TRUE]
  ELSE [reload |-> TRUE, config |-> parse_config(content[1]), err |-> FALSE]

\* The closure of one iteration of the watcher's loop (watcher.rs:38-64)
\* for an event of kind `kind` ("Error": an Err from the watcher), the
\* content read_to_string finds (None: the read fails) and
\* last_reload.elapsed() in ms: whether it sets last_reload and dispatches
\* reload_config, with which config, and whether it returns an Err.
watch_config_iteration(kind, content, elapsed) ==
  IF kind = "Error" THEN [reload |-> FALSE, config |-> None, err |-> TRUE]
  ELSE IF ~is_content_change(kind) THEN [reload |-> FALSE, config |-> None, err |-> FALSE]
  ELSE IF elapsed < DebounceMs THEN [reload |-> FALSE, config |-> None, err |-> FALSE]
  ELSE IF content = None THEN [reload |-> FALSE, config |-> None, err |-> TRUE]
  ELSE IF parse_config(content[1]) = None THEN [reload |-> FALSE, config |-> None, err |-> TRUE]
  ELSE [reload |-> TRUE, config |-> parse_config(content[1]), err |-> FALSE]

\* What a fetch against the provider of generation gen returns: None, or
\* the snapshot of that provider's account.
provider_snapshot(gen) ==
  into_usage_data(
    UsageResponse(Some(Bucket(300 + 120 * gen, Some(T5h))),
                  Some(Bucket(420, Some(T7d))), None, None, None), None)

fetch_outcomes(gen) == {None, Some(provider_snapshot(gen))}

\* DispatchQueue::main().exec_async(closure) (delegate.rs:184,
\* watcher.rs:58): the closure joins the main queue once.
exec_async_twice(queue, closure) == Append(Append(queue, closure), closure)

exec_async(queue, closure) == Append(queue, closure)

\* The thread a closure given to DispatchQueue::main() runs on, for a
\* caller on thread `caller`.
exec_on_caller(caller) == caller

exec_async_thread(caller) == "main"

\* The main thread runs one task at a time: a closure or handler starts
\* only when no render pass is under way.
MainThreadFreeAlways(task) == TRUE

MainThreadFree(task) == task = None

Closure(kind, cycle, data, config, caller) ==
  [kind |-> kind, cycle |-> cycle, data |-> data, config |-> config,
   thread |-> exec_async_thread(caller)]

\* refresh (delegate.rs:177-190, main.rs:496-521): a thread is spawned for
\* every call; it holds the provider handle cloned at the call.
refresh(cs, gen) ==
  Append(cs, [gen |-> gen, pc |-> "fetching", data |-> None, delivered |-> 0])

Call(call, thread) ==
  [call |-> call, thread |-> thread,
   during |-> IF main_task = None THEN "idle" ELSE main_task[1].kind]

\* reload_config(new_config), the closure of watcher.rs:58-61: the display
\* settings and the provider handle are replaced together and a refresh is
\* requested under the new provider.
reload_config(new_config, gen) == [display |-> new_config, provider |-> gen + 1]

SchedInit ==
  /\ variant \in {"dispatch", "polling"}
  /\ launched = FALSE
  /\ provider = 0
  /\ cycles = <<>>
  /\ main_queue = <<>>
  /\ main_task = None
  /\ call_log = {}
  /\ renders = <<>>
  /\ pass = [tray_saw |-> None, menu_saw |-> None]
  /\ button_title = None
  /\ since_reload = 0
  /\ edits = 0
  /\ display = ConfigA
  /\ placeholder = <<"5h", "7d">>
  /\ tray = loading_tray(display, placeholder)
  /\ menu = IF variant = "dispatch" THEN loading_menu ELSE <<>>
  /\ last_data = None
  /\ clock = NowBase

SchedIdle ==
  /\ variant = "dispatch"
  /\ launched = FALSE
  /\ provider = 0
  /\ cycles = <<>>
  /\ main_queue = <<>>
  /\ main_task = None
  /\ call_log = {}
  /\ renders = <<>>
  /\ pass = [tray_saw |-> None, menu_saw |-> None]
  /\ button_title = None
  /\ since_reload = 0
  /\ edits = 0

\* applicationDidFinishLaunching (delegate.rs:125-137)
DidFinishLaunching ==
  /\ variant = "dispatch"
  /\ ~launched
  /\ MainThreadFree(main_task)
  /\ launched' = TRUE
  /\ cycles' = refresh(cycles, provider)
  /\ call_log' = call_log \cup {Call("fetch_data", "worker")}
  /\ UNCHANGED <<variant, provider, main_queue, main_task, renders, pass, button_title,
                 since_reload, edits, statusVars, exceptApp>>

\* onTimer: (delegate.rs:64-67)
OnTimer ==
  /\ variant = "dispatch"
  /\ launched
  /\ MainThreadFree(main_task)
  /\ Len(cycles) < MaxCycles
  /\ cycles' = refresh(cycles, provider)
  /\ call_log' = call_log \cup {Call("fetch_data", "worker")}
  /\ UNCHANGED <<variant, launched, provider, main_queue, main_task, renders, pass,
                 button_title, since_reload, edits, statusVars, exceptApp>>

\* onRefresh: (delegate.rs:76-85), the menu's Refresh item
OnRefresh ==
  /\ variant = "dispatch"
  /\ launched
  /\ MainThreadFree(main_task)
  /\ Len(cycles) < MaxCycles
  /\ cycles' = refresh(cycles, provider)
  /\ call_log' = call_log \cup {Call("fetch_data", "worker")}
  /\ UNCHANGED <<variant, launched, provider, main_queue, main_task, renders, pass,
                 button_title, since_reload, edits, statusVars, exceptApp>>

\* The thread of refresh (delegate.rs:182-189): fetch_data returns
\* `outcome` and the closure calling rebuild_ui is given to the main queue.
WorkerFinish(i, outcome) ==
  /\ variant = "dispatch"
  /\ cycles[i].pc = "fetching"
  /\ cycles' = [cycles EXCEPT ![i].pc = "queued", ![i].data = outcome]
  /\ main_queue' = exec_async(main_queue, Closure("rebuild_ui", i, outcome, None, "worker"))
  /\ UNCHANGED <<variant, launched, provider, main_task, call_log, renders, pass,
                 button_title, since_reload, edits, statusVars, exceptApp>>

\* The closure of refresh runs (delegate.rs:184-187): rebuild_ui up to and
\* including the tray image (delegate.rs:192-231).  On the main thread a
\* snapshot's menu is rebuilt in the pass's second step, RebuildUiMenu; a
\* failed outcome ends the pass here.
RunRebuildUi ==
  /\ variant = "dispatch"
  /\ main_queue # <<>>
  /\ LET c == Head(main_queue)
         out == rebuild_ui(c.data, display, placeholder, menu)
         two_steps == c.data # None /\ c.thread = "main"
     IN  /\ c.kind = "rebuild_ui"
         /\ c.thread = "main" => MainThreadFree(main_task)
         /\ main_queue' = Tail(main_queue)
         /\ call_log' = call_log \cup {Call("rebuild_ui", c.thread)}
         /\ renders' = Append(renders, [cycle |-> c.cycle, gen |-> cycles[c.cycle].gen])
         /\ cycles' = [cycles EXCEPT ![c.cycle].pc = "delivered",
                                     ![c.cycle].delivered = @ + 1]
         /\ tray' = out.tray
         /\ menu' = IF two_steps THEN menu ELSE out.menu
         /\ pass' = [tray_saw |-> Some(display),
                     menu_saw |-> IF c.data = None \/ two_steps THEN None ELSE Some(display)]
         /\ main_task' = IF two_steps
                           THEN Some([kind |-> "rebuild_ui", cycle |-> c.cycle, data |-> c.data[1]])
                           ELSE main_task
         /\ last_data' = IF two_steps THEN last_data ELSE Some(c.data)
  /\ UNCHANGED <<variant, launched, provider, button_title, since_reload, edits,
                 display, placeholder, clock, exceptApp>>

\* rebuild_ui from the menu on (delegate.rs:233-239): populate_menu reads
\* the display settings again (views.rs:32-34).
RebuildUiMenu ==
  /\ variant = "dispatch"
  /\ main_task # None
  /\ main_task[1].kind = "rebuild_ui"
  /\ menu' = populate_menu(main_task[1].data, display)
  /\ pass' = [pass EXCEPT !.menu_saw = Some(display)]
  /\ last_data' = Some(Some(main_task[1].data))
  /\ main_task' = None
  /\ UNCHANGED <<variant, launched, provider, cycles, main_queue, call_log, renders,
                 button_title, since_reload, edits,
                 display, placeholder, tray, clock, exceptApp>>

\* The closure of the watcher runs (watcher.rs:58-61): reload_config, and
\* the refresh it requests.
RunReloadConfig ==
  /\ variant = "dispatch"
  /\ main_queue # <<>>
  /\ Len(cycles) < MaxCycles
  /\ LET c == Head(main_queue)
         new == reload_config(c.config, provider)
     IN  /\ c.kind = "reload_config"
         /\ c.thread = "main" => MainThreadFree(main_task)
         /\ main_queue' = Tail(main_queue)
         /\ display' = new.display
         /\ provider' = new.provider
         /\ cycles' = refresh(cycles, new.provider)
         /\ call_log' = call_log \cup {Call("reload_config", c.thread), Call("fetch_data", "worker")}
  /\ UNCHANGED <<variant, launched, main_task, renders, pass, button_title,
                 since_reload, edits, placeholder, tray, menu, last_data, clock, exceptApp>>

\* One iteration of the watcher thread's loop (watcher.rs:37-69) for an
\* event of kind `kind`; `content` is what read_to_string finds in the
\* config file at that moment: None when the read fails, else Some(text).
WatcherHandle(kind, content) ==
  /\ variant = "dispatch"
  /\ edits < MaxEdits
  /\ edits' = edits + 1
  /\ LET it == watch_config_iteration(kind, content, since_reload)
     IN  IF it.reload
           THEN /\ since_reload' = 0
                /\ main_queue' = exec_async(main_queue,
                                   Closure("reload_config", 0, None, it.config[1], "watcher"))
           ELSE UNCHANGED <<since_reload, main_queue>>
  /\ UNCHANGED <<variant, launched, provider, cycles, main_task, call_log, renders, pass,
                 button_title, statusVars, exceptApp>>

\* Time passes for the watcher's debounce (watcher.rs:47)
Tick ==
  /\ variant = "dispatch"
  /\ since_reload < DebounceMs
  /\ since_reload' = Min(since_reload + TickMs, DebounceMs)
  /\ UNCHANGED <<variant, launched, provider, cycles, main_queue, main_task, call_log,
                 renders, pass, button_title, edits, statusVars, exceptApp>>

(***************************************************************************)
(* The "polling" variant: main.rs                                          *)
(***************************************************************************)
\* format_tier (main.rs:97-105)
format_tier(tier) ==
  CASE tier = "default_claude_free" -> "Free"
    [] tier = "default_claude_pro" -> "Pro"
    [] tier = "default_claude_max_5x" -> "Max 5x"
    [] tier = "default_claude_max_20x" -> "Max 20x"
    [] OTHER -> tier

\* make_progress_row (main.rs:222-281)
make_progress_row(label, utilization, reset_str) ==
  Item("bucket", label \o "  " \o FmtNat(AsU32(utilization)) \o "%",
       Some("resets in " \o reset_str), utilization)

\* update_ui (main.rs:523-631): the title and the menu it leaves
update_ui(usage, profile, cur_menu) ==
  IF usage = None THEN [title |-> "L: ??", menu |-> cur_menu]
  ELSE
    LET u == usage[1]
        util(b) == IF b = None THEN 0 ELSE b[1].utilization
        display_pct == Max(util(u.five_hour), util(u.seven_day))
        row(label, b) ==
          IF b = None THEN <<>>
          ELSE << make_progress_row(label, b[1].utilization,
                                    main_format_reset_time(b[1].resets_at, clock)) >>
        extra ==
          IF u.extra_usage # None /\ u.extra_usage[1].is_enabled
            THEN << separatorItem, Item("label", "Extra Usage", None, 0),
                    Item("key_value", "Spent",
                         Some(FmtUsd(u.extra_usage[1].used_credits) \o " / "
                              \o FmtUsd(u.extra_usage[1].monthly_limit)), 0) >>
            ELSE <<>>
    IN  [title |-> "L: " \o FmtNat(AsU32(display_pct)) \o "%",
         menu |-> << Item("header", "Claude Usage",
                          IF profile = None THEN None ELSE Some(format_tier(profile[1])), 0) >>
                  \o row("5h Limit", u.five_hour) \o row("7d Limit", u.seven_day)
                  \o row("7d Sonnet", u.seven_day_sonnet) \o row("7d Opus", u.seven_day_opus)
                  \o extra \o << separatorItem, quit_item >>]

\* What the thread of main.rs's refresh sends: (usage, profile)
PollOutcomes ==
  { <<None, None>>,
    <<None, Some("default_claude_pro")>>,
    <<Some(UsageResponse(Some(Bucket(300, Rfc(1972, 3, 1, 1, 30, 0, TRUE, 1, 0, 0))),
                         Some(Bucket(420, Rfc(1972, 3, 3, 3, 0, 0, TRUE, 1, 0, 0))),
                         None, None, None)),
      Some("default_claude_max_5x")>> }

\* applicationDidFinishLaunching (main.rs:449-482)
MainDidFinishLaunching ==
  /\ variant = "polling"
  /\ ~launched
  /\ launched' = TRUE
  /\ button_title' = Some("L: ...")
  /\ cycles' = refresh(cycles, provider)
  /\ call_log' = call_log \cup {Call("fetch_data", "worker")}
  /\ UNCHANGED <<variant, provider, main_queue, main_task, renders, pass,
                 since_reload, edits, statusVars, exceptApp>>

\* onTimer: (main.rs:434-437)
MainOnTimer ==
  /\ variant = "polling"
  /\ launched
  /\ Len(cycles) < MaxCycles
  /\ cycles' = refresh(cycles, provider)
  /\ call_log' = call_log \cup {Call("fetch_data", "worker")}
  /\ UNCHANGED <<variant, launched, provider, main_queue, main_task, renders, pass,
                 button_title, since_reload, edits, statusVars, exceptApp>>

\* The thread of refresh (main.rs:499-504): the fetches end and the result
\* is sent on the cycle's channel.
WorkerSend(i, outcome) ==
  /\ variant = "polling"
  /\ cycles[i].pc = "fetching"
  /\ cycles' = [cycles EXCEPT ![i].pc = "sent", ![i].data = outcome]
  /\ UNCHANGED <<variant, launched, provider, main_queue, main_task, call_log, renders,
                 pass, button_title, since_reload, edits, statusVars, exceptApp>>

\* The cycle's 0.25 s timer fires with a result in the channel
\* (main.rs:509-515): try_recv takes it, the timer is invalidated and
\* update_ui runs.  A firing that finds the channel empty changes nothing.
PollTimerFire(i) ==
  /\ variant = "polling"
  /\ cycles[i].pc = "sent"
  /\ LET out == update_ui(cycles[i].data[1], cycles[i].data[2], menu)
     IN  /\ button_title' = Some(out.title)
         /\ menu' = out.menu
  /\ cycles' = [cycles EXCEPT ![i].pc = "delivered", ![i].delivered = @ + 1]
  /\ renders' = Append(renders, [cycle |-> i, gen |-> cycles[i].gen])
  /\ call_log' = call_log \cup {Call("update_ui", "main")}
  /\ last_data' = Some(cycles[i].data)
  /\ UNCHANGED <<variant, launched, provider, main_queue, main_task, pass,
                 since_reload, edits, display, placeholder, tray, clock, exceptApp>>

Next ==
  \/ DidFinishLaunching
  \/ OnTimer
  \/ OnRefresh
  \/ \E i \in DOMAIN cycles : \E outcome \in fetch_outcomes(cycles[i].gen) :
       WorkerFinish(i, outcome)
  \/ RunRebuildUi
  \/ RebuildUiMenu
  \/ RunReloadConfig
  \/ \E kind \in EventKinds : \E content \in {None} \cup {Some(t) : t \in ConfigTexts} :
       WatcherHandle(kind, content)
  \/ Tick
  \/ MainDidFinishLaunching
  \/ MainOnTimer
  \/ \E i \in DOMAIN cycles : \E outcome \in PollOutcomes : WorkerSend(i, outcome)
  \/ \E i \in DOMAIN cycles : PollTimerFire(i)

(***************************************************************************)
(* SpecProvider: ClaudeCodeProvider.  Threads call fetch_data on one       *)
(* provider; each HTTP call is made inside get_inner, under the token      *)
(* mutex.                                                                  *)
(***************************************************************************)
MaxFetches == 1

\* The threads that call fetch_data (one per refresh under way)
ProviderThreads == {1, 2}

\* fetch_token asking the keychain before the settings.
fetch_token_keychain_first(settings_token, keychain) ==
  IF keychain # None THEN keychain ELSE settings_token

\* fetch_token (claude_code.rs:141-151): the token of the settings if one
\* is set, else the keychain's; None stands for Err.
fetch_token(settings_token, keychain) ==
  IF settings_token # None THEN settings_token ELSE keychain

\* How the API answers: auth is whom it authorises ("none": nobody, every
\* request gets 401; "fresh": only the token the keychain holds now;
\* "any"), fault is what goes wrong for an authorised request.
Servers ==
  [auth : {"none", "fresh", "any"},
   fault : {"ok", "usage_garbage", "usage_500", "usage_transport",
            "profile_500", "profile_garbage", "profile_new_tier"}]

ResultOk(body) == [ok |-> TRUE, status |-> 200, body |-> body]
\* Err(ureq::Error): StatusCode(status), or with status 0 any other one
\* (no connection, timeout of the peer, broken body)
ResultErr(status) == [ok |-> FALSE, status |-> status, body |-> ""]

\* get_inner's request and body read (claude_code.rs:238-244), for the
\* token sent: Ok(body) or Err(StatusCode(_)).
http_call(server, url, token) ==
  IF ~(server.auth = "any" \/ (server.auth = "fresh" /\ token = "kc-token"))
    THEN ResultErr(401)
  ELSE IF server.fault = url \o "_transport" THEN ResultErr(0)
  ELSE IF server.fault = url \o "_500" THEN ResultErr(500)
  ELSE IF server.fault = url \o "_garbage" THEN ResultOk("garbage")
  ELSE IF server.fault = url \o "_new_tier" THEN ResultOk("profile-new-tier-json")
  ELSE ResultOk(url \o "-json")

\* get after a get_inner call has returned `result` (claude_code.rs:
\* 212-231), with a 401 refreshing the token on every attempt.
get_after_retry_again(result, attempt, keychain) ==
  IF ~result.ok /\ result.status = 401 /\ keychain # None
    THEN [next |-> "store", new_token |-> keychain[1], value |-> None, token_fetches |-> 1]
    ELSE [next |-> "return", new_token |-> "",
          value |-> IF result.ok THEN Some(result.body) ELSE None, token_fetches |-> 0]

\* get after a get_inner call has returned `result` (claude_code.rs:
\* 212-231).  After the first call a 401 makes it ask the keychain: with a
\* token it stores it and retries (next = "store"), without one it returns
\* result.ok().  The retry's result is returned as it is.
get_after(result, attempt, keychain) ==
  IF attempt = 1 /\ ~result.ok /\ result.status = 401
    THEN IF keychain # None
           THEN [next |-> "store", new_token |-> keychain[1], value |-> None,
                 token_fetches |-> 1]
           ELSE [next |-> "return", new_token |-> "", value |-> None, token_fetches |-> 1]
    ELSE [next |-> "return", new_token |-> "",
          value |-> IF result.ok THEN Some(result.body) ELSE None, token_fetches |-> 0]

\* The usage the API reports, and serde_json::from_str on a body
\* (claude_code.rs:192-195, 203-206)
TheUsage ==
  UsageResponse(Some(Bucket(300, Some(T5h))), Some(Bucket(420, Some(T7d))), None, None, None)

parse_usage(body) == IF body = "usage-json" THEN Some(TheUsage) ELSE None

\* organization.rate_limit_tier of a well-formed profile body: the server's
\* usual answer names the Pro tier, the other one a tier that the enum
\* SubscriptionTier does not have.
rate_limit_tier(body) ==
  CASE body = "profile-json" -> "default_claude_pro"
    [] body = "profile-new-tier-json" -> "default_claude_max_10x"

\* Deserialize of SubscriptionTier (claude_code.rs:52-62): one variant for
\* each serde rename, an error (None) for any other string.
deserialize_tier(s) ==
  CASE s = "default_claude_free" -> Some("Free")
    [] s = "default_claude_pro" -> Some("Pro")
    [] s = "default_claude_max_5x" -> Some("Max5x")
    [] s = "default_claude_max_20x" -> Some("Max20x")
    [] OTHER -> None

\* serde_json::from_str::<ProfileResponse>(..).ok() of fetch_profile
\* (claude_code.rs:203-206), as the tier of the parsed response: an error in
\* any field fails the whole response.
parse_profile(body) ==
  IF body \in {"profile-json", "profile-new-tier-json"}
    THEN deserialize_tier(rate_limit_tier(body))
    ELSE None

IdleThread ==
  [pc |-> "idle", url |-> "usage", attempt |-> 1, new_token |-> "", usage |-> None,
   http_calls |-> 0, token_fetches |-> 0, fetches |-> 0, result |-> None,
   sent |-> <<>>]

\* ClaudeCodeProvider::new (claude_code.rs:133-139), for the settings and
\* the keychain of that moment; a provider exists only if fetch_token
\* returned a token.
ProvInit ==
  /\ p_server \in Servers
  /\ p_keychain \in {None, Some("kc-token")}
  /\ p_token \in { fetch_token(s, k)[1] :
                     s \in {None, Some("cfg-token")},
                     k \in {Some("old-kc-token"), Some("kc-token")} }
  /\ p_lock = 0
  /\ p_threads = [t \in ProviderThreads |-> IdleThread]

ProvIdle ==
  /\ p_server = [auth |-> "any", fault |-> "ok"]
  /\ p_keychain = None
  /\ p_token = "cfg-token"
  /\ p_lock = 0
  /\ p_threads = [t \in ProviderThreads |-> IdleThread]

\* fetch_data is called (claude_code.rs:248-250): fetch_usage, get
ProvFetchData(t) ==
  /\ p_threads[t].pc = "idle"
  /\ p_threads[t].fetches < MaxFetches
  /\ p_threads' = [p_threads EXCEPT ![t] =
       [IdleThread EXCEPT !.pc = "lock", !.fetches = p_threads[t].fetches + 1]]
  /\ UNCHANGED <<p_server, p_keychain, p_token, p_lock, exceptProv>>

\* get_inner going on to its request without the token mutex.
ProvLock_without_mutex(t) ==
  /\ p_threads[t].pc = "lock"
  /\ p_lock' = t
  /\ p_threads' = [p_threads EXCEPT ![t].pc = "http"]
  /\ UNCHANGED <<p_server, p_keychain, p_token, exceptProv>>

\* get_inner takes the token mutex (claude_code.rs:237)
ProvLock(t) ==
  /\ p_threads[t].pc = "lock"
  /\ p_lock = 0
  /\ p_lock' = t
  /\ p_threads' = [p_threads EXCEPT ![t].pc = "http"]
  /\ UNCHANGED <<p_server, p_keychain, p_token, exceptProv>>

\* fetch_data with `?` on fetch_profile as well
after_get_profile_fatal(th, value) ==
  IF th.url = "usage"
    THEN LET usage == IF value = None THEN None ELSE parse_usage(value[1])
         IN  IF usage = None
               THEN [th EXCEPT !.pc = "done", !.result = Some(None)]
               ELSE [th EXCEPT !.pc = "lock", !.url = "profile", !.attempt = 1,
                               !.usage = usage]
    ELSE LET profile == IF value = None THEN None ELSE parse_profile(value[1])
         IN  [th EXCEPT !.pc = "done",
                        !.result = IF profile = None THEN Some(None)
                                   ELSE Some(Some(into_usage_data(th.usage[1], profile)))]

\* What fetch_usage / fetch_profile / fetch_data do with the value get
\* returned (claude_code.rs:187-207, 248-254)
after_get(th, value) ==
  IF th.url = "usage"
    THEN LET usage == IF value = None THEN None ELSE parse_usage(value[1])
         IN  IF usage = None
               THEN [th EXCEPT !.pc = "done", !.result = Some(None)]
               ELSE [th EXCEPT !.pc = "lock", !.url = "profile", !.attempt = 1,
                               !.usage = usage]
    ELSE LET profile == IF value = None THEN None ELSE parse_profile(value[1])
         IN  [th EXCEPT !.pc = "done",
                        !.result = Some(Some(into_usage_data(th.usage[1], profile)))]

\* The HTTP call of get_inner returns (claude_code.rs:238-244): the mutex
\* guard is dropped, and get goes on up to its next call of get_inner or
\* to its return.
ProvHttpReturn(t) ==
  /\ p_threads[t].pc = "http"
  /\ p_lock' = 0
  /\ LET th == p_threads[t]
         result == http_call(p_server, th.url, p_token)
         step == get_after(result, th.attempt, p_keychain)
         counted == [th EXCEPT !.http_calls = @ + 1,
                               !.token_fetches = @ + step.token_fetches,
                               !.sent = Append(@, p_token)]
     IN  p_threads' = [p_threads EXCEPT ![t] =
           IF step.next = "store"
             THEN [counted EXCEPT !.pc = "store", !.new_token = step.new_token]
             ELSE after_get(counted, step.value)]
  /\ UNCHANGED <<p_server, p_keychain, p_token, exceptProv>>

\* The HTTP call of get_inner never returns: no timeout is set on it, and
\* the thread keeps the mutex guard.
ProvHttpHangs(t) ==
  /\ p_threads[t].pc = "http"
  /\ p_threads' = [p_threads EXCEPT ![t].pc = "hung"]
  /\ UNCHANGED <<p_server, p_keychain, p_token, p_lock, exceptProv>>

\* get retrying without storing the token it read.
ProvStoreToken_keeps_token(t) ==
  /\ p_threads[t].pc = "store"
  /\ p_lock = 0
  /\ p_threads' = [p_threads EXCEPT ![t].pc = "lock", ![t].attempt = 2]
  /\ UNCHANGED <<p_server, p_keychain, p_token, p_lock, exceptProv>>

\* *self.token.lock().unwrap() = new_token, then the retry (claude_code.rs:
\* 216-220)
ProvStoreToken(t) ==
  /\ p_threads[t].pc = "store"
  /\ p_lock = 0
  /\ p_token' = p_threads[t].new_token
  /\ p_threads' = [p_threads EXCEPT ![t].pc = "lock", ![t].attempt = 2]
  /\ UNCHANGED <<p_server, p_keychain, p_lock, exceptProv>>

\* fetch_data returns to its caller
ProvReturn(t) ==
  /\ p_threads[t].pc = "done"
  /\ p_threads' = [p_threads EXCEPT ![t].pc = "idle"]
  /\ UNCHANGED <<p_server, p_keychain, p_token, p_lock, exceptProv>>

(***************************************************************************)
(* CliproxyClaudeProvider (providers/cliproxy_claude.rs): the same two     *)
(* requests, made for it by a CLIProxy; no token is kept.                  *)
(***************************************************************************)
\* What a POST to /v0/management/api-call can come to
ProxyReplies ==
  {"post_fails", "read_fails", "envelope_garbage", "status_401", "status_500",
   "body_garbage", "ok"}

\* ureq::post(..).send(..), read_to_string and from_str::<ApiCallResponse>
\* (cliproxy_claude.rs:100-115): None when one of them fails, else the
\* ApiCallResponse
proxy_response(reply, url) ==
  CASE reply \in {"post_fails", "read_fails", "envelope_garbage"} -> None
    [] reply = "status_401" -> Some([status_code |-> 401, body |-> "unauthorized"])
    [] reply = "status_500" -> Some([status_code |-> 500, body |-> "error"])
    [] reply = "body_garbage" -> Some([status_code |-> 200, body |-> "garbage"])
    [] OTHER -> Some([status_code |-> 200, body |-> url \o "-json"])

\* api_get (cliproxy_claude.rs:80-123)
api_get(reply, url) ==
  LET parsed == proxy_response(reply, url)
  IN  IF parsed = None THEN None
      ELSE IF parsed[1].status_code # 200 THEN None
      ELSE Some(parsed[1].body)

\* fetch_data of the proxied provider (cliproxy_claude.rs:58-78, 127-132)
\* for the replies its two requests get
cliproxy_fetch_data(usage_reply, profile_reply) ==
  LET usage_body == api_get(usage_reply, "usage")
      usage == IF usage_body = None THEN None ELSE parse_usage(usage_body[1])
      profile_body == api_get(profile_reply, "profile")
      profile == IF profile_body = None THEN None ELSE parse_profile(profile_body[1])
  IN  IF usage = None THEN None ELSE Some(into_usage_data(usage[1], profile))

ProxyStart ==
  /\ x_last = None
  /\ x_fetches = 0

\* CliproxyClaudeProvider::new (cliproxy_claude.rs:48-56)
ProxyInit == ProxyStart

ProxyIdle == ProxyStart

\* fetch_data is called on the proxied provider and returns; there is a
\* reply to the profile request only if that request is made.
ProxyFetchData(usage_reply, profile_reply) ==
  /\ x_fetches < MaxFetches
  /\ cliproxy_fetch_data(usage_reply, "ok") = None => profile_reply = "ok"
  /\ x_fetches' = x_fetches + 1
  /\ x_last' = Some([usage_reply |-> usage_reply,
                     profile_reply |-> IF api_get(usage_reply, "usage") = Some("usage-json")
                                         THEN profile_reply ELSE "none",
                     result |-> cliproxy_fetch_data(usage_reply, profile_reply)])
  /\ UNCHANGED exceptProxy

ProxyFetches ==
  \E usage_reply \in ProxyReplies, profile_reply \in ProxyReplies :
    ProxyFetchData(usage_reply, profile_reply)

ProvNext ==
  \/ \E t \in ProviderThreads :
       \/ ProvFetchData(t)
       \/ ProvLock(t)
       \/ ProvHttpReturn(t)
       \/ ProvHttpHangs(t)
       \/ ProvStoreToken(t)
       \/ ProvReturn(t)
  \/ ProxyFetches

(***************************************************************************)
(* SpecLinux: the tray of platform/linux/tray.rs.  One refresh thread      *)
(* fetches at start and after every 60 s sleep; manual refreshes spawn a   *)
(* thread each; the GTK main loop polls the channel of UiEvents.           *)
(***************************************************************************)
MaxRounds == 2
MaxClicks == 2

\* What api.fetch_usage() and api.fetch_profile() return: (usage, profile)
LinuxOutcomes ==
  { <<None, None>>,
    <<Some(UsageResponse(Some(Bucket(300, Some(T5h))), Some(Bucket(420, Some(T7d))),
                         None, None, None)), Some("Pro")>>,
    <<Some(UsageResponse(Some(Bucket(995, Some(T5h))), None, None, None,
                         Some(ExtraUsage(TRUE, 5000, 1234)))), None>> }

\* LinuxTray::tool_tip (tray.rs:54-72): the description
tool_tip(t) ==
  IF t.usage = None THEN "Loading..."
  ELSE LET pct(b) == IF b = None THEN 0 ELSE AsU32(b[1].utilization)
       IN  "7d " \o FmtNat(pct(t.usage[1].seven_day)) \o "% | 5h "
           \o FmtNat(pct(t.usage[1].five_hour)) \o "%"

\* popup::update_popup (popup.rs:296-347): the tier badge changes only
\* with a profile; a row is shown for every bucket present.
update_popup(popup, usage, profile) ==
  LET row(name, b) ==
        IF b = None THEN <<>>
        ELSE << name \o "  " \o FmtNat(AsU32(b[1].utilization)) \o "%" >>
  IN  [loading |-> FALSE,
       tier |-> IF profile # None THEN profile ELSE popup.tier,
       rows |-> row("5h Limit", usage.five_hour) \o row("7d Limit", usage.seven_day)
                \o row("7d Sonnet", usage.seven_day_sonnet)
                \o row("7d Opus", usage.seven_day_opus),
       extra |-> IF usage.extra_usage # None /\ usage.extra_usage[1].is_enabled
                   THEN Some(FmtUsd(usage.extra_usage[1].used_credits) \o " / "
                             \o FmtUsd(usage.extra_usage[1].monthly_limit))
                   ELSE None]

DataUpdate(usage, profile) == [kind |-> "DataUpdate", usage |-> usage, profile |-> profile]
RefreshEvent == [kind |-> "Refresh", usage |-> None, profile |-> None]

\* The body of the 50 ms poll (tray.rs:251-271) over the events received:
\* the popup after them, and how many threads the Refresh events spawn.
RECURSIVE drain(_, _, _)
drain(evs, popup, spawned) ==
  IF evs = <<>> THEN [popup |-> popup, spawned |-> spawned]
  ELSE LET e == Head(evs)
       IN  IF e.kind = "Refresh" THEN drain(Tail(evs), popup, spawned + 1)
           ELSE IF e.usage # None
             THEN drain(Tail(evs), update_popup(popup, e.usage[1], e.profile), spawned)
           ELSE drain(Tail(evs), popup, spawned)

ManualThread(src) == [pc |-> "fetching", src |-> src]

RECURSIVE Spawned(_)
Spawned(n) == IF n = 0 THEN <<>> ELSE <<ManualThread("popup")>> \o Spawned(n - 1)

\* run (tray.rs:186-215): the tray and the popup before any fetch returns,
\* the refresh thread inside its first fetch.
LinuxInit ==
  /\ l_tray = [usage |-> None, profile |-> None]
  /\ l_popup = [loading |-> TRUE, tier |-> None, rows |-> <<>>, extra |-> None]
  /\ l_chan = <<>>
  /\ l_periodic = [pc |-> "fetching", rounds |-> 1]
  /\ l_manual = <<>>
  /\ l_clicks = 0

LinuxIdle ==
  /\ l_tray = [usage |-> None, profile |-> None]
  /\ l_popup = [loading |-> TRUE, tier |-> None, rows |-> <<>>, extra |-> None]
  /\ l_chan = <<>>
  /\ l_periodic = [pc |-> "fetching", rounds |-> 1]
  /\ l_manual = <<>>
  /\ l_clicks = 0

\* The refresh thread's fetches return (tray.rs:218-224, 228-234): the
\* tray is updated and DataUpdate is sent; the thread goes to sleep.
PeriodicFetchReturn(outcome) ==
  /\ l_periodic.pc = "fetching"
  /\ l_tray' = [usage |-> outcome[1], profile |-> outcome[2]]
  /\ l_chan' = Append(l_chan, DataUpdate(outcome[1], outcome[2]))
  /\ l_periodic' = [l_periodic EXCEPT !.pc = "sleeping"]
  /\ UNCHANGED <<l_popup, l_manual, l_clicks, exceptLinux>>

\* A fetch of the refresh thread never returns
PeriodicFetchHangs ==
  /\ l_periodic.pc = "fetching"
  /\ l_periodic' = [l_periodic EXCEPT !.pc = "hung"]
  /\ UNCHANGED <<l_tray, l_popup, l_chan, l_manual, l_clicks, exceptLinux>>

\* The refresh thread's sleep of 60 s ends (tray.rs:227-228)
PeriodicWake ==
  /\ l_periodic.pc = "sleeping"
  /\ l_periodic.rounds < MaxRounds
  /\ l_periodic' = [pc |-> "fetching", rounds |-> l_periodic.rounds + 1]
  /\ UNCHANGED <<l_tray, l_popup, l_chan, l_manual, l_clicks, exceptLinux>>

\* The popup's refresh button is clicked (tray.rs:240-243)
ClickRefreshButton ==
  /\ l_clicks < MaxClicks
  /\ l_clicks' = l_clicks + 1
  /\ l_chan' = Append(l_chan, RefreshEvent)
  /\ UNCHANGED <<l_tray, l_popup, l_periodic, l_manual, exceptLinux>>

\* The tray menu's Refresh item is activated (tray.rs:124-143)
ActivateMenuRefresh ==
  /\ l_clicks < MaxClicks
  /\ l_clicks' = l_clicks + 1
  /\ l_manual' = Append(l_manual, ManualThread("menu"))
  /\ UNCHANGED <<l_tray, l_popup, l_chan, l_periodic, exceptLinux>>

\* The 50 ms poll of the GTK main loop finds events (tray.rs:248-273)
PollEvents ==
  /\ l_chan # <<>>
  /\ LET out == drain(l_chan, l_popup, 0)
     IN  /\ l_popup' = out.popup
         /\ l_manual' = l_manual \o Spawned(out.spawned)
  /\ l_chan' = <<>>
  /\ UNCHANGED <<l_tray, l_periodic, l_clicks, exceptLinux>>

\* The fetches of a manual refresh's thread return (tray.rs:128-134,
\* 261-268): the tray is updated; only the thread spawned for a Refresh
\* event sends DataUpdate.
ManualFetchReturn(k, outcome) ==
  /\ l_manual[k].pc = "fetching"
  /\ l_manual' = [l_manual EXCEPT ![k].pc = "done"]
  /\ l_tray' = [usage |-> outcome[1], profile |-> outcome[2]]
  /\ l_chan' = IF l_manual[k].src = "popup"
                 THEN Append(l_chan, DataUpdate(outcome[1], outcome[2]))
                 ELSE l_chan
  /\ UNCHANGED <<l_popup, l_periodic, l_clicks, exceptLinux>>

\* A fetch of a manual refresh's thread never returns
ManualFetchHangs(k) ==
  /\ l_manual[k].pc = "fetching"
  /\ l_manual' = [l_manual EXCEPT ![k].pc = "hung"]
  /\ UNCHANGED <<l_tray, l_popup, l_chan, l_periodic, l_clicks, exceptLinux>>

PeriodicFetchReturns == \E outcome \in LinuxOutcomes : PeriodicFetchReturn(outcome)

ManualFetchReturns ==
  \E k \in DOMAIN l_manual : \E outcome \in LinuxOutcomes : ManualFetchReturn(k, outcome)

LinuxNext ==
  \/ PeriodicFetchReturns
  \/ PeriodicFetchHangs
  \/ PeriodicWake
  \/ ClickRefreshButton
  \/ ActivateMenuRefresh
  \/ PollEvents
  \/ ManualFetchReturns
  \/ \E k \in DOMAIN l_manual : ManualFetchHangs(k)

(***************************************************************************)
(* SpecWatcher: the thread spawned by watch_config (watcher.rs:34-70) on   *)
(* its own, with the time of every reload it dispatches.                   *)
(***************************************************************************)
MaxWatchEvents == 3
MaxWatchTime == 500

\* What the watcher can be handed and can find: the kinds of events that
\* matter to is_content_change and one of each other outcome, and what
\* read_to_string returns (None: the read fails).
WatchKinds == {"Modify(Data)", "Create", "Access", "Error"}
WatchContents == {None} \cup { Some(text) : text \in ConfigTexts }

WatchStart ==
  /\ w_now = 0
  /\ w_last_reload = 0
  /\ w_queue = <<>>
  /\ w_active = ConfigA
  /\ w_reloads = <<>>
  /\ w_last = None
  /\ w_warned = 0
  /\ w_events = 0

\* let mut last_reload = Instant::now() (watcher.rs:35), with the config
\* AppDelegate::new was given in effect
WatchInit == WatchStart

WatchIdle == WatchStart

\* One iteration of the loop (watcher.rs:37-69)
WatchEvent(kind, content) ==
  /\ w_events < MaxWatchEvents
  /\ w_events' = w_events + 1
  /\ LET it == watch_config_iteration(kind, content, w_now - w_last_reload)
     IN  /\ w_last' = Some([kind |-> kind, content |-> content, at |-> w_now,
                            elapsed |-> w_now - w_last_reload, reload |-> it.reload,
                            err |-> it.err,
                            active_before |-> w_active,
                            last_reload_before |-> w_last_reload,
                            prev |-> IF w_last = None THEN None
                                     ELSE Some([kind |-> w_last[1].kind, at |-> w_last[1].at,
                                                err |-> w_last[1].err])])
         /\ w_warned' = IF it.err THEN w_warned + 1 ELSE w_warned
         /\ IF it.reload
              THEN /\ w_last_reload' = w_now
                   /\ w_reloads' = Append(w_reloads, w_now)
                   /\ w_queue' = exec_async(w_queue,
                                   Closure("reload_config", 0, None, it.config[1], "watcher"))
              ELSE UNCHANGED <<w_last_reload, w_reloads, w_queue>>
  /\ UNCHANGED <<w_now, w_active, exceptWatch>>

\* The main thread runs a closure of the watcher (watcher.rs:58-61)
WatchRunReload ==
  /\ w_queue # <<>>
  /\ w_active' = reload_config(Head(w_queue).config, 0).display
  /\ w_queue' = Tail(w_queue)
  /\ UNCHANGED <<w_now, w_last_reload, w_reloads, w_last, w_warned, w_events, exceptWatch>>

\* Time passes
WatchTick ==
  /\ w_now < MaxWatchTime
  /\ w_now' = w_now + TickMs
  /\ UNCHANGED <<w_last_reload, w_queue, w_active, w_reloads, w_last, w_warned, w_events,
                 exceptWatch>>

WatchEvents == \E kind \in WatchKinds, content \in WatchContents : WatchEvent(kind, content)

WatchNext ==
  \/ WatchEvents
  \/ WatchRunReload
  \/ WatchTick

(***************************************************************************)
(* SpecWindows: the tray of platform/windows/tray.rs.  Fetch threads write *)
(* SharedState and post WM_DATA_UPDATE; wndproc reads the state when it    *)
(* processes the message.                                                  *)
(***************************************************************************)
MaxWinRounds == 2
MaxWinClicks == 2

\* add_tray_icon (tray.rs:98-114): the tooltip the icon starts with
win_initial_tip == "Claude Usage"

\* The tooltip wndproc formats from a usage (tray.rs:220-222); the dash of
\* the source is written "-" here.
win_tip(usage) ==
  LET pct(b) == IF b = None THEN 0 ELSE AsU32(b[1].utilization)
  IN  "Claude Usage - 7d " \o FmtNat(pct(usage.seven_day)) \o "% | 5h "
      \o FmtNat(pct(usage.five_hour)) \o "%"

\* wndproc, WM_DATA_UPDATE (tray.rs:216-228): the tooltip it leaves
wndproc_data_update(state, tooltip) ==
  IF state.usage # None THEN win_tip(state.usage[1]) ELSE tooltip

WinStart ==
  /\ v_state = [usage |-> None, profile |-> None]
  /\ v_tooltip = win_initial_tip
  /\ v_posted = 0
  /\ v_bg = [pc |-> "fetching", rounds |-> 1]
  /\ v_manual = <<>>
  /\ v_clicks = 0
  /\ v_seen = None

\* run (tray.rs:241-310), up to the message loop
WinInit == WinStart

WinIdle == WinStart

\* do_fetch of the background thread returns (tray.rs:289-301)
WinBgFetchReturn(outcome) ==
  /\ v_bg.pc = "fetching"
  /\ v_state' = [usage |-> outcome[1], profile |-> outcome[2]]
  /\ v_posted' = v_posted + 1
  /\ v_bg' = [v_bg EXCEPT !.pc = "sleeping"]
  /\ UNCHANGED <<v_tooltip, v_manual, v_clicks, v_seen, exceptWin>>

\* The background thread's sleep of 60 s ends (tray.rs:304-307)
WinBgWake ==
  /\ v_bg.pc = "sleeping"
  /\ v_bg.rounds < MaxWinRounds
  /\ v_bg' = [pc |-> "fetching", rounds |-> v_bg.rounds + 1]
  /\ UNCHANGED <<v_state, v_tooltip, v_posted, v_manual, v_clicks, v_seen, exceptWin>>

\* wndproc, WM_COMMAND with IDM_REFRESH (tray.rs:197-208): spawn_refresh
WinCommandRefresh ==
  /\ v_clicks < MaxWinClicks
  /\ v_clicks' = v_clicks + 1
  /\ v_manual' = Append(v_manual, "fetching")
  /\ UNCHANGED <<v_state, v_tooltip, v_posted, v_bg, v_seen, exceptWin>>

\* The thread of spawn_refresh ends (tray.rs:158-176)
WinManualFetchReturn(k, outcome) ==
  /\ v_manual[k] = "fetching"
  /\ v_manual' = [v_manual EXCEPT ![k] = "done"]
  /\ v_state' = [usage |-> outcome[1], profile |-> outcome[2]]
  /\ v_posted' = v_posted + 1
  /\ UNCHANGED <<v_tooltip, v_bg, v_clicks, v_seen, exceptWin>>

\* wndproc, WM_DATA_UPDATE (tray.rs:216-228)
WinDataUpdate ==
  /\ v_posted > 0
  /\ v_posted' = v_posted - 1
  /\ v_tooltip' = wndproc_data_update(v_state, v_tooltip)
  /\ v_seen' = Some(v_state.usage)
  /\ UNCHANGED <<v_state, v_bg, v_manual, v_clicks, exceptWin>>

WinBgFetchReturns == \E outcome \in LinuxOutcomes : WinBgFetchReturn(outcome)

WinManualFetchReturns ==
  \E k \in DOMAIN v_manual : \E outcome \in LinuxOutcomes : WinManualFetchReturn(k, outcome)

WinNext ==
  \/ WinBgFetchReturns
  \/ WinBgWake
  \/ WinCommandRefresh
  \/ WinManualFetchReturns
  \/ WinDataUpdate

(***************************************************************************)
(* SpecToken: where the token comes from.  ClaudeCodeProvider::new takes   *)
(* it through fetch_token; the entry point of util.rs through              *)
(* get_claude_token.  A later 401 replaces it with the keychain's.         *)
(***************************************************************************)
MaxRefreshes == 1

TokenEntries == {"ClaudeCodeProvider::new", "get_claude_token"}
SettingsTokens == {None, Some("cfg-token"), Some("cfg-token-2")}
EnvTokens == {None, Some("env-token"), Some("env-token-2")}
KeychainTokens == {None, Some("kc-token"), Some("old-kc-token")}

\* get_claude_token (util.rs:34-53): None stands for Err
get_claude_token(env, keychain) ==
  IF env # None THEN env ELSE keychain

\* The token the entry point comes to hold, or None for Err
first_token(entry, settings_token, env, keychain) ==
  IF entry = "ClaudeCodeProvider::new"
    THEN fetch_token(settings_token, keychain)
    ELSE get_claude_token(env, keychain)

TokenInit ==
  /\ k_entry \in TokenEntries
  /\ k_settings \in SettingsTokens
  /\ k_env \in EnvTokens
  /\ k_keychain \in KeychainTokens
  /\ k_token = None
  /\ k_refreshes = 0

TokenIdle ==
  /\ k_entry = "ClaudeCodeProvider::new"
  /\ k_settings = None
  /\ k_env = None
  /\ k_keychain = None
  /\ k_token = None
  /\ k_refreshes = 0

\* ClaudeCodeProvider::new (claude_code.rs:133-139) or get_claude_token
\* (util.rs:34-53) is called
AcquireToken ==
  /\ k_token = None
  /\ k_token' = Some(first_token(k_entry, k_settings, k_env, k_keychain))
  /\ UNCHANGED <<k_entry, k_settings, k_env, k_keychain, k_refreshes, exceptToken>>

\* get on a 401 (claude_code.rs:212-216): the keychain's token, if any,
\* replaces the one held
RefreshToken ==
  /\ k_entry = "ClaudeCodeProvider::new"
  /\ k_token # None
  /\ k_token[1] # None
  /\ k_refreshes < MaxRefreshes
  /\ k_refreshes' = k_refreshes + 1
  /\ k_token' = IF k_keychain # None THEN Some(k_keychain) ELSE k_token
  /\ UNCHANGED <<k_entry, k_settings, k_env, k_keychain, exceptToken>>

TokenNext ==
  \/ AcquireToken
  \/ RefreshToken

(***************************************************************************)
(* SpecDebug: DebugProvider (providers/debug.rs), which wraps a provider   *)
(* for its tier list and makes its data from the clock.                    *)
(***************************************************************************)
MaxDebugSecs == 125

\* all_tiers of the wrapped provider (claude_code.rs:256-258,
\* cliproxy_claude.rs:134-136): SubscriptionTier::iter(), in the order of
\* the enum
all_tiers(wrapped) ==
  << tier_info("Free"), tier_info("Pro"), tier_info("Max5x"), tier_info("Max20x") >>

\* fetch_data with the utilization cycling over a minute.
debug_fetch_data_over_a_minute(tiers, secs10) ==
  LET window(title, short, period) ==
        [title |-> title, short_title |-> Some(short), utilization |-> (secs10 % 600) * 10,
         resets_at |-> Some(secs10 \div 10), period_seconds |-> Some(period)]
  IN  Some([account_tier |-> Some(tiers[((secs10 \div 30) % Len(tiers)) + 1]),
            api_usage |-> Some([usage_usd |-> 420, limit_usd |-> Some(1000)]),
            windows |-> << window("5h Limit", "5h", 5 * 3600),
                           window("7d Limit", "7d", 7 * 86400) >>])

\* DebugProvider::fetch_data (debug.rs:20-55) at secs10 tenths of a
\* second since the epoch.  Utilization is held in tenths of a percent:
\* (secs % 10.0) / 10.0 * 100.0 is secs10 % 100 percent.  Sequences count
\* from 1, Vec from 0.
debug_fetch_data(tiers, secs10) ==
  LET utilization == (secs10 % 100) * 10
      tier == tiers[((secs10 \div 30) % Len(tiers)) + 1]
      window(title, short, period) ==
        [title |-> title, short_title |-> Some(short), utilization |-> utilization,
         resets_at |-> Some(secs10 \div 10), period_seconds |-> Some(period)]
  IN  Some([account_tier |-> Some(tier),
            api_usage |-> Some([usage_usd |-> 420, limit_usd |-> Some(1000)]),
            windows |-> << window("5h Limit", "5h", 5 * 3600),
                           window("7d Limit", "7d", 7 * 86400) >>])

\* DebugProvider::new (debug.rs:13-16)
DebugInit ==
  /\ d_wrapped \in {"claude_code", "cliproxy_claude"}
  /\ d_secs \in {0, 29, 95}
  /\ d_out = None

DebugIdle ==
  /\ d_wrapped = "claude_code"
  /\ d_secs = 0
  /\ d_out = None

\* fetch_data is called
DebugFetchData ==
  /\ d_out' = Some([secs |-> d_secs, tiers |-> all_tiers(d_wrapped),
                    data |-> debug_fetch_data(all_tiers(d_wrapped), d_secs)])
  /\ UNCHANGED <<d_wrapped, d_secs, exceptDebug>>

\* Time passes
DebugTick ==
  /\ d_secs < MaxDebugSecs
  /\ d_secs' = d_secs + 1
  /\ UNCHANGED <<d_wrapped, d_out, exceptDebug>>

DebugNext ==
  \/ DebugFetchData
  \/ DebugTick

(***************************************************************************)
(* Specifications                                                          *)
(***************************************************************************)
InitTime == TimeInit /\ StatusIdle /\ SchedIdle /\ ProvIdle /\ LinuxIdle /\ WatchIdle /\ ProxyIdle /\ WinIdle /\ TokenIdle /\ DebugIdle
SpecTime == InitTime /\ [][TimeNext]_vars

InitRender == TimeIdle /\ StatusInit /\ SchedIdle /\ ProvIdle /\ LinuxIdle /\ WatchIdle /\ ProxyIdle /\ WinIdle /\ TokenIdle /\ DebugIdle
SpecRender == InitRender /\ [][RenderNext]_vars

Init == TimeIdle /\ SchedInit /\ ProvIdle /\ LinuxIdle /\ WatchIdle /\ ProxyIdle /\ WinIdle /\ TokenIdle /\ DebugIdle
Spec == Init /\ [][Next]_vars

InitProvider == TimeIdle /\ StatusIdle /\ SchedIdle /\ ProvInit /\ LinuxIdle /\ WatchIdle /\ ProxyInit /\ WinIdle /\ TokenIdle /\ DebugIdle
SpecProvider == InitProvider /\ [][ProvNext]_vars

InitLinux == TimeIdle /\ StatusIdle /\ SchedIdle /\ ProvIdle /\ LinuxInit /\ WatchIdle /\ ProxyIdle /\ WinIdle /\ TokenIdle /\ DebugIdle
SpecLinux == InitLinux /\ [][LinuxNext]_vars

InitWatcher == TimeIdle /\ StatusIdle /\ SchedIdle /\ ProvIdle /\ LinuxIdle /\ WatchInit /\ ProxyIdle /\ WinIdle /\ TokenIdle /\ DebugIdle
SpecWatcher == InitWatcher /\ [][WatchNext]_vars

InitWindows == TimeIdle /\ StatusIdle /\ SchedIdle /\ ProvIdle /\ LinuxIdle /\ WatchIdle /\ ProxyIdle /\ WinInit /\ TokenIdle /\ DebugIdle
SpecWindows == InitWindows /\ [][WinNext]_vars

InitToken == TimeIdle /\ StatusIdle /\ SchedIdle /\ ProvIdle /\ LinuxIdle /\ WatchIdle /\ ProxyIdle /\ WinIdle /\ TokenInit /\ DebugIdle
SpecToken == InitToken /\ [][TokenNext]_vars

InitDebug == TimeIdle /\ StatusIdle /\ SchedIdle /\ ProvIdle /\ LinuxIdle /\ WatchIdle /\ ProxyIdle /\ WinIdle /\ TokenIdle /\ DebugInit
SpecDebug == InitDebug /\ [][DebugNext]_vars

(***************************************************************************)
(* C6: relative reset-time formatting.                                     *)
(***************************************************************************)
\* The difference the call saw: resets_at - now, in whole seconds.
t_d ==
  (IF t_variant = "jiff" THEN t_resets_at ELSE parse_rfc3339_timestamp(t_resets_at))
  - t_now

\* The text the claim gives for a difference d, written out unit by unit.
C6_Expected(d) ==
  IF d <= 0 THEN "now"
  ELSE IF d >= 86400
    THEN FmtNat(d \div 86400) \o "d " \o FmtNat((d % 86400) \div 3600) \o "h"
  ELSE IF d >= 3600
    THEN FmtNat(d \div 3600) \o "h " \o FmtNat((d % 3600) \div 60) \o "m"
  ELSE FmtNat(d \div 60) \o "m"

\* C6: after the call the text is "now" for d <= 0, "<days>d <hours>h" for
\* d >= 86400, "<hours>h <minutes>m" for 3600 <= d < 86400 and "<minutes>m"
\* below an hour; d = 0 gives "now", 90 minutes "1h 30m", 2 days 3 hours
\* "2d 3h", and 1..59 seconds "0m".
C6_ResetTimeFormat ==
  t_out # None =>
    /\ t_out[1] = C6_Expected(t_d)
    /\ (t_d <= 0 => t_out[1] = "now")
    /\ (t_d = 5400 => t_out[1] = "1h 30m")
    /\ (t_d = 183600 => t_out[1] = "2d 3h")
    /\ (t_d \in 1..59 => t_out[1] = "0m")

\* Witness: a call with the reset 2 days 3 hours ahead has returned "2d 3h".
C6_Witness == t_out = Some("2d 3h") /\ t_d = 183600

(***************************************************************************)
(* C4: failure distinguishability in the macOS tray.                       *)
(***************************************************************************)
\* Every tray text rebuild_ui can produce for a snapshot, under any settings
SuccessTrayTexts == { TrayText(rebuild_ui_tray(s, d)) : s \in Snapshots, d \in Displays }

\* C4: whenever the last outcome given to rebuild_ui was a failure (None),
\* both tray lines read "<label> --", the non-numeric placeholder in place
\* of a percentage, and the tray text differs from every tray text that
\* rebuild_ui produces for a snapshot, the 0% one and the one without
\* short-titled windows included.
C4_FailureDistinguishable ==
  last_data = Some(None) =>
    /\ TrayText(tray) = <<placeholder[1] \o " --", placeholder[2] \o " --">>
    /\ TrayText(tray) \notin SuccessTrayTexts

\* A failure rendered after a snapshot, with the labels that make a
\* snapshot without short-titled windows read "-- 0%".
C4_Witness ==
  /\ last_data = Some(None)
  /\ placeholder = <<"--", "--">>
  /\ menu # loading_menu
  /\ <<"-- 0%", "-- 0%">> \in SuccessTrayTexts
  /\ TrayText(tray) = <<"-- --", "-- --">>

(***************************************************************************)
(* C5: display-mode inversion in the menu.                                 *)
(***************************************************************************)
\* C5: after a snapshot is rendered, the menu row of every window whose
\* utilization u lies in [0, 100] displays u under Usage mode and 100 - u
\* under Remaining mode: the inversion is applied exactly once between the
\* snapshot and the row.
C5_MenuInversionOnce ==
  (last_data # None /\ last_data[1] # None) =>
    LET data == last_data[1][1]
    IN  \A i \in 1..Len(data.windows) :
          LET u == data.windows[i].utilization
              want == IF display.display_mode = "remaining" THEN 1000 - u ELSE u
          IN  (0 <= u /\ u <= 1000) =>
                /\ menu[i + 1].value = want
                /\ menu[i + 1].text =
                     data.windows[i].title \o "  " \o FmtInt(AsI64(want)) \o "%"

(***************************************************************************)
(* C1: refresh coalescing.                                                 *)
(***************************************************************************)
\* The cycles whose fetch_data call has started and not returned
InFlight == {i \in DOMAIN cycles : cycles[i].pc = "fetching"}

\* C1: in every reachable state at most one fetch_data call is in flight:
\* a refresh trigger (timer tick or manual Refresh) that arrives while a
\* fetch is in flight starts no second, concurrent fetch.
C1_AtMostOneFetchInFlight == Cardinality(InFlight) <= 1

(***************************************************************************)
(* C2: stale-generation drop.                                              *)
(***************************************************************************)
\* C2: once an outcome fetched under provider generation G2 has been
\* rendered, no outcome fetched under an earlier generation G1 < G2 is
\* rendered after it: the late outcome is discarded and the G2 view stays.
C2_StaleGenerationDropped ==
  \A j \in DOMAIN renders : \A k \in DOMAIN renders :
    j < k => renders[j].gen <= renders[k].gen

(***************************************************************************)
(* C7: fetches run off the UI thread, rendering runs only on it.           *)
(***************************************************************************)
\* C7: every fetch_data call of refresh is made by a spawned worker thread,
\* and every rebuild_ui, update_ui and reload_config call is made by the
\* main thread; no worker thread and no watcher thread renders.
C7_FetchOffMainRenderOnMain ==
  \A e \in call_log :
    /\ e.call = "fetch_data" => e.thread = "worker"
    /\ e.call \in {"rebuild_ui", "update_ui", "reload_config"} => e.thread = "main"

\* A worker has fetched, its outcome was rendered, and a reload has run.
C7_Witness ==
  /\ {e.call : e \in call_log} = {"fetch_data", "rebuild_ui", "reload_config"}
  /\ \E i \in DOMAIN cycles : cycles[i].pc = "delivered" /\ cycles[i].data # None
  /\ display = ConfigB

(***************************************************************************)
(* C8: exactly-once delivery per cycle.                                    *)
(***************************************************************************)
\* How often rebuild_ui / update_ui was called for cycle i
Deliveries(i) == Cardinality({k \in DOMAIN renders : renders[k].cycle = i})

\* The closures in the main queue that will call rebuild_ui for cycle i
Pending(i) ==
  Cardinality({k \in DOMAIN main_queue :
                 main_queue[k].kind = "rebuild_ui" /\ main_queue[k].cycle = i})

\* C8: a cycle whose fetch has not returned has delivered nothing; a cycle
\* whose fetch has returned is delivered through exactly one pending
\* hand-over (one closure in the main queue, or the message in the polled
\* channel) or has been delivered; rebuild_ui / update_ui is never called
\* twice for a cycle.
C8_ExactlyOnceDelivery ==
  \A i \in DOMAIN cycles :
    /\ Deliveries(i) <= 1
    /\ cycles[i].delivered = Deliveries(i)
    /\ cycles[i].pc = "fetching" => Deliveries(i) = 0 /\ Pending(i) = 0
    /\ cycles[i].pc = "queued" => Deliveries(i) = 0 /\ Pending(i) = 1
    /\ cycles[i].pc = "sent" => Deliveries(i) = 0 /\ Pending(i) = 0
    /\ cycles[i].pc = "delivered" => Deliveries(i) = 1 /\ Pending(i) = 0

\* The polling variant with every cycle delivered once, in an order other
\* than the one the cycles were started in.
C8_Witness ==
  /\ variant = "polling"
  /\ Len(cycles) = MaxCycles
  /\ \A i \in DOMAIN cycles : cycles[i].pc = "delivered" /\ cycles[i].delivered = 1
  /\ renders[1].cycle # 1

(***************************************************************************)
(* C10: config reload atomicity.                                           *)
(***************************************************************************)
\* C10: the two steps of a render pass read the same display settings, the
\* tray image and the menu a finished pass leaves are those of one whole
\* configuration, and reload_config runs on the main thread while no
\* render pass is under way.
C10_ReloadAtomic ==
  /\ (pass.tray_saw # None /\ pass.menu_saw # None) => pass.tray_saw = pass.menu_saw
  /\ (variant = "dispatch" /\ main_task = None /\ last_data # None /\ last_data[1] # None) =>
       \E c \in {ConfigA, ConfigB} :
         /\ tray = rebuild_ui_tray(last_data[1][1], c)
         /\ menu = populate_menu(last_data[1][1], c)
  /\ \A e \in call_log :
       e.call = "reload_config" => e.thread = "main" /\ e.during = "idle"

\* A render pass is between its two steps while the watcher's reload
\* closure waits in the main queue.
C10_Witness ==
  /\ main_task # None
  /\ \E k \in DOMAIN main_queue : main_queue[k].kind = "reload_config"
  /\ main_queue[1].config # display


(***************************************************************************)
(* C3  Auth-retry bound.  With an API that answers 401 to every request    *)
(* and a keychain that yields a token, every fetch_data invocation makes   *)
(* at most two HTTP calls and asks the keychain at most once, never gets   *)
(* as far as the profile request, and when it has finished it has made     *)
(* exactly two HTTP calls (the request and one retry), has re-acquired     *)
(* the token exactly once and has returned None.                           *)
(***************************************************************************)
AlwaysUnauthorized == p_server.auth = "none" /\ p_keychain # None

C3_AuthRetryBound ==
  AlwaysUnauthorized =>
    \A t \in ProviderThreads :
      LET th == p_threads[t]
      IN  /\ th.http_calls <= 2
          /\ th.token_fetches <= 1
          /\ th.url = "usage"
          /\ th.result # None =>
               /\ th.http_calls = 2
               /\ th.token_fetches = 1
               /\ th.result = Some(None)

\* A fetch_data invocation has returned after its retry was answered 401
C3_Witness ==
  /\ AlwaysUnauthorized
  /\ \E t \in ProviderThreads :
       /\ p_threads[t].pc = "idle"
       /\ p_threads[t].attempt = 2
       /\ p_threads[t].http_calls = 2
       /\ p_threads[t].token_fetches = 1
       /\ p_threads[t].result = Some(None)
       /\ p_token = "kc-token"

(***************************************************************************)
(* C9  A stuck fetch does not wedge the periodic refresh.  Whenever some   *)
(* fetch has hung, the refresh thread is still asleep before its next      *)
(* fetch or inside a fetch that can return and be displayed, and a click   *)
(* on the refresh button is still accepted.                                *)
(***************************************************************************)
SomeFetchHung ==
  \/ l_periodic.pc = "hung"
  \/ \E k \in DOMAIN l_manual : l_manual[k].pc = "hung"

C9_StuckFetchDoesNotWedge ==
  SomeFetchHung =>
    /\ l_periodic.pc = "sleeping" \/ ENABLED PeriodicFetchReturns
    /\ l_clicks < MaxClicks => ENABLED ClickRefreshButton


(***************************************************************************)
(* C11  Config parse failure is non-fatal and leaves state unchanged.  An  *)
(* iteration of the watcher's loop whose event is an Err, or whose read or *)
(* parse of the config file fails, dispatches nothing, leaves last_reload  *)
(* and the configuration in effect as they were and ends in the logged     *)
(* warning; the thread goes on to the next event, and an iteration that    *)
(* finds a valid content change outside the debounce dispatches            *)
(* reload_config with the parsed configuration, which the main thread      *)
(* then puts into effect.                                                  *)
(***************************************************************************)
ReadOrParseFails(kind, content) ==
  \/ kind = "Error"
  \/ /\ is_content_change(kind)
     /\ w_now - w_last_reload >= DebounceMs
     /\ content = None \/ parse_config(content[1]) = None

ValidChange(kind, content) ==
  /\ is_content_change(kind)
  /\ w_now - w_last_reload >= DebounceMs
  /\ content # None
  /\ parse_config(content[1]) # None

C11_ParseFailureNonFatal ==
  [][ /\ \A kind \in WatchKinds, content \in WatchContents :
           WatchEvent(kind, content) =>
             /\ ReadOrParseFails(kind, content) =>
                  /\ UNCHANGED <<w_queue, w_active, w_last_reload, w_reloads>>
                  /\ w_warned' = w_warned + 1
             /\ ValidChange(kind, content) =>
                  /\ Len(w_queue') = Len(w_queue) + 1
                  /\ w_queue'[Len(w_queue')].kind = "reload_config"
                  /\ w_queue'[Len(w_queue')].config = parse_config(content[1])[1]
      /\ WatchRunReload => w_active' = Head(w_queue).config
    ]_vars

\* After an iteration that failed, a valid change was found, dispatched
\* and put into effect.
C11_Witness ==
  /\ w_last # None
  /\ w_last[1].reload
  /\ w_last[1].prev # None
  /\ w_last[1].prev[1].err
  /\ w_last[1].prev[1].kind # "Error"
  /\ w_queue = <<>>
  /\ w_active = parse_config(w_last[1].content[1])[1]
  /\ w_active # w_last[1].active_before

(***************************************************************************)
(* C12  Config debounce.  Two reloads are never dispatched less than       *)
(* 200 ms apart; an iteration dispatches a reload exactly when its event   *)
(* is a content change (data modify, rename, create), at least 200 ms have *)
(* passed since last_reload was set and the file reads and parses; an      *)
(* iteration that dispatches nothing leaves last_reload alone, so a        *)
(* failure does not delay the next content change.                         *)
(***************************************************************************)
C12_Debounce ==
  /\ \A i \in 1..Len(w_reloads) :
       w_reloads[i] - (IF i = 1 THEN 0 ELSE w_reloads[i - 1]) >= DebounceMs
  /\ w_last # None =>
       LET it == w_last[1]
       IN  /\ it.reload <=>
                /\ it.kind \in {"Modify(Data)", "Modify(Name)", "Create"}
                /\ it.elapsed >= DebounceMs
                /\ it.content # None
                /\ parse_config(it.content[1]) # None
           /\ w_last_reload = IF it.reload THEN it.at ELSE it.last_reload_before

\* A content change that failed to parse outside the debounce is followed
\* at once by one that is processed, 200 ms after the reload before.
C12_Witness ==
  /\ w_last # None
  /\ w_last[1].reload
  /\ w_last[1].prev # None
  /\ w_last[1].prev[1].err
  /\ w_last[1].prev[1].kind = "Modify(Data)"
  /\ w_last[1].prev[1].at = w_last[1].at
  /\ Len(w_reloads) = 2
  /\ w_reloads[2] - w_reloads[1] = DebounceMs


(***************************************************************************)
(* C13  Fetch error containment.  A fetch_data call that has returned has  *)
(* returned None whenever the usage request met a transport error, a       *)
(* status other than 2xx or a body that does not deserialize; when only    *)
(* the profile request failed it has returned the snapshot of the usage    *)
(* response with no account tier.  Both for ClaudeCodeProvider and for     *)
(* CliproxyClaudeProvider.                                                 *)
(***************************************************************************)
UsageFaults == {"usage_transport", "usage_500", "usage_garbage"}
ProfileFaults == {"profile_500", "profile_garbage"}

\* The API accepts the token the provider holds, or the one it can get
Authorised ==
  \/ p_server.auth = "any"
  \/ p_server.auth = "fresh" /\ (p_token = "kc-token" \/ p_keychain # None)

SnapshotWithoutTier == into_usage_data(TheUsage, None)

C13_FetchErrorContainment ==
  /\ \A t \in ProviderThreads :
       p_threads[t].result # None =>
         /\ p_server.fault \in UsageFaults => p_threads[t].result = Some(None)
         /\ p_server.fault \in ProfileFaults /\ Authorised =>
              p_threads[t].result = Some(Some(SnapshotWithoutTier))
  /\ x_last # None =>
       /\ x_last[1].usage_reply # "ok" => x_last[1].result = None
       /\ x_last[1].usage_reply = "ok" /\ x_last[1].profile_reply # "ok" =>
            x_last[1].result = Some(SnapshotWithoutTier)

\* Each provider has returned from a call whose profile request alone
\* failed, the direct one after a 401 and a retry of the usage request.
C13_Witness ==
  /\ p_server.fault \in ProfileFaults
  /\ \E t \in ProviderThreads :
       /\ p_threads[t].result = Some(Some(SnapshotWithoutTier))
       /\ p_threads[t].http_calls = 3
  /\ x_last # None
  /\ x_last[1].usage_reply = "ok"
  /\ x_last[1].profile_reply = "status_500"
  /\ x_last[1].result = Some(SnapshotWithoutTier)
  /\ SnapshotWithoutTier.account_tier = None
  /\ SnapshotWithoutTier.windows # <<>>


(***************************************************************************)
(* C14  Action rows are always present.  The menu of the status item,      *)
(* while loading and after every sequence of rebuild_ui calls with         *)
(* snapshots and with failed outcomes, holds the items Refresh,            *)
(* Open Config and Quit.                                                   *)
(***************************************************************************)
HasAction(text) ==
  \E i \in DOMAIN menu : menu[i].kind = "action" /\ menu[i].text = text

C14_ActionRowsPresent ==
  /\ HasAction("Refresh")
  /\ HasAction("Open Config...")
  /\ HasAction("Quit")

\* A failed refresh after a successful one: the menu is the snapshot's
C14_Witness ==
  /\ last_data = Some(None)
  /\ menu # loading_menu
  /\ menu[1].kind = "header"
  /\ HasAction("Refresh")

(***************************************************************************)
(* C16  Idempotent render.  Calling rebuild_ui again with the outcome it   *)
(* was last called with, under the same display settings and at the same   *)
(* clock reading, leaves the tray image and the menu exactly as they are.  *)
(***************************************************************************)
C16_IdempotentRender ==
  last_data # None =>
    rebuild_ui(last_data[1], display, placeholder, menu) = [tray |-> tray, menu |-> menu]

\* A snapshot with several windows and extra usage has been rendered
C16_Witness ==
  /\ last_data # None
  /\ last_data[1] # None
  /\ Len(last_data[1][1].windows) >= 3
  /\ last_data[1][1].api_usage # None
  /\ menu = populate_menu(last_data[1][1], display)
  /\ tray = rebuild_ui_tray(last_data[1][1], display)

(***************************************************************************)
(* C18  Tray summary selection.  After rebuild_ui with a snapshot the two  *)
(* tray lines are those of the first two windows, in snapshot order, that  *)
(* have a short title; a line shows the short title and the window's       *)
(* utilization (100 - utilization in remaining mode) as a whole number,    *)
(* and a line with no such window shows "--" and 0%.                       *)
(***************************************************************************)
\* The k-th window with a short title among the first n windows, or None
RECURSIVE Qualifying(_, _, _)
Qualifying(windows, k, from) ==
  IF from > Len(windows) THEN None
  ELSE IF windows[from].short_title = None THEN Qualifying(windows, k, from + 1)
  ELSE IF k = 1 THEN Some(windows[from])
  ELSE Qualifying(windows, k - 1, from + 1)

SlotLabel(slot) == IF slot = None THEN "--" ELSE slot[1].short_title[1]

SlotPercent(slot) ==
  IF slot = None THEN 0
  ELSE IF display.display_mode = "remaining" THEN 1000 - slot[1].utilization
  ELSE slot[1].utilization

\* The whole number shown for a percentage held in tenths
Whole(p) == IF p < 0 THEN 0 ELSE p \div 10

C18_TraySummarySelection ==
  (last_data # None /\ last_data[1] # None) =>
    LET windows == last_data[1][1].windows
        s1 == Qualifying(windows, 1, 1)
        s2 == Qualifying(windows, 2, 1)
        n1 == FmtNat(Whole(SlotPercent(s1)))
        n2 == FmtNat(Whole(SlotPercent(s2)))
        width == Max(Len(n1), Len(n2))
    IN  /\ tray.line1 = SlotLabel(s1) \o " " \o PadLeft(n1, width) \o "%"
        /\ tray.line2 = SlotLabel(s2) \o " " \o PadLeft(n2, width) \o "%"
        /\ tray.color1 = utilization_color(SlotPercent(s1))
        /\ tray.color2 = utilization_color(SlotPercent(s2))

\* The 5h window at 30% in remaining mode, followed by a window without a
\* short title, which is skipped.
C18_Witness ==
  /\ last_data # None
  /\ last_data[1] # None
  /\ Len(last_data[1][1].windows) >= 2
  /\ last_data[1][1].windows[2].short_title = None
  /\ display.display_mode = "remaining"
  /\ tray.line1 = "5h 70%"
  /\ tray.line2 = "--  0%"

(***************************************************************************)
(* C19  Elapsed-period percent in bucket_row.  The row of a window carries *)
(* a percentage after its reset text exactly when the period is given and  *)
(* positive and the reset lies strictly in the future; the percentage is   *)
(* clamp(0, 100, (period - remaining) / period * 100) in usage mode and    *)
(* 100 minus that in remaining mode, rounded to a whole number, and so     *)
(* lies in 0..100 also when remaining exceeds the period.                  *)
(***************************************************************************)
RowBase(w) ==
  IF display.reset_time_format = "absolute"
    THEN "reset: " \o format_absolute_time(w.resets_at[1])
    ELSE "resets in " \o format_reset_time(w.resets_at[1], clock)

RowPeriod(w) == IF display.show_period_percentage THEN w.period_seconds ELSE None

RowComputed(w) ==
  /\ RowPeriod(w) # None
  /\ RowPeriod(w)[1] > 0
  /\ w.resets_at[1] - clock > 0

\* v is a whole number nearest to the percentage the claim gives, with
\* the percentage held as the fraction num / period
RowNearest(w, v) ==
  LET period == RowPeriod(w)[1]
      remaining == w.resets_at[1] - clock
      raw == (period - remaining) * 100
      elapsed == IF raw < 0 THEN 0 ELSE IF raw > 100 * period THEN 100 * period ELSE raw
      num == IF display.display_mode = "remaining" THEN 100 * period - elapsed ELSE elapsed
      diff == v * period - num
  IN  2 * (IF diff < 0 THEN -diff ELSE diff) <= period

C19_ElapsedPeriodPercent ==
  (last_data # None /\ last_data[1] # None) =>
    \A i \in DOMAIN last_data[1][1].windows :
      LET w == last_data[1][1].windows[i]
          row == menu[i + 1]
      IN  /\ row.kind = "bucket"
          /\ IF RowComputed(w)
               THEN \E v \in 0..100 :
                      /\ RowNearest(w, v)
                      /\ row.sub = Some(RowBase(w) \o " (" \o FmtNat(v) \o "%)")
               ELSE row.sub = Some(RowBase(w))

\* A window whose reset is further away than its period, in remaining
\* mode: the row shows 100%
C19_Witness ==
  /\ last_data # None
  /\ last_data[1] # None
  /\ display.display_mode = "remaining"
  /\ \E i \in DOMAIN last_data[1][1].windows :
       LET w == last_data[1][1].windows[i]
       IN  /\ RowComputed(w)
           /\ w.resets_at[1] - clock > w.period_seconds[1]
           /\ menu[i + 1].sub = Some(RowBase(w) \o " (100%)")


(***************************************************************************)
(* C17  No stale numbers after a failure in the Windows adapter.  When     *)
(* the last WM_DATA_UPDATE processed found state.usage = None, the tray    *)
(* tooltip is none of the texts that carry the percentages of a usage.     *)
(***************************************************************************)
NumericTips == { win_tip(o[1][1]) : o \in { x \in LinuxOutcomes : x[1] # None } }

C17_NoStaleNumbersAfterFailure ==
  (v_seen # None /\ v_seen[1] = None) => v_tooltip \notin NumericTips


(***************************************************************************)
(* C15  Token updates under racing 401s.  With an API that rejects only    *)
(* the stale token, so that one refresh from the keychain is enough, no    *)
(* two fetch_data calls that are under way at the same time have both      *)
(* re-fetched the token from the keychain and written it.                  *)
(***************************************************************************)
\* The calls under way that have read the keychain and stored the token
Refreshers ==
  { t \in ProviderThreads :
      /\ p_threads[t].pc \notin {"idle", "store"}
      /\ p_threads[t].token_fetches = 1
      /\ p_threads[t].attempt = 2 }

C15_RacingRefreshOnce ==
  p_server.auth = "fresh" => Cardinality(Refreshers) <= 1


(***************************************************************************)
(* C20  Token source at first acquisition.  As claimed: the token first    *)
(* acquired is the credential store's if it has one, else the environment  *)
(* override's, else the static config's.                                   *)
(***************************************************************************)
C20_StoreEnvConfigOrder ==
  (k_token # None /\ k_refreshes = 0) =>
    k_token[1] = (IF k_keychain # None THEN k_keychain
                  ELSE IF k_env # None THEN k_env
                  ELSE k_settings)

(***************************************************************************)
(* C20 (amended)  The token first acquired is the override's if one is     *)
(* set, else the credential store's: ClaudeCodeProvider::new takes the     *)
(* token of its settings and does not read the environment;                *)
(* get_claude_token takes the environment variable and does not read the   *)
(* settings.  With neither an override nor a keychain entry the            *)
(* acquisition fails.                                                      *)
(***************************************************************************)
C20_OverrideBeforeStore ==
  (k_token # None /\ k_refreshes = 0) =>
    LET override == IF k_entry = "ClaudeCodeProvider::new" THEN k_settings ELSE k_env
    IN  k_token[1] = (IF override # None THEN override ELSE k_keychain)

\* The settings and the keychain both hold a token, and the provider has
\* taken the one of the settings
C20_Witness ==
  /\ k_entry = "ClaudeCodeProvider::new"
  /\ k_settings = Some("cfg-token")
  /\ k_keychain = Some("kc-token")
  /\ k_env = Some("env-token")
  /\ k_refreshes = 0
  /\ k_token = Some(Some("cfg-token"))


(***************************************************************************)
(* C21  The debug provider always succeeds.  Every fetch_data call of      *)
(* DebugProvider returns a snapshot with the two windows 5h and 7d, whose  *)
(* utilization is (secs mod 10) / 10 * 100 and so lies in [0, 100), and    *)
(* with the tier of the wrapped provider's list at index                   *)
(* floor(secs / 3) mod len.                                                *)
(***************************************************************************)
C21_DebugAlwaysSucceeds ==
  d_out # None =>
    LET call == d_out[1]
        n == Len(call.tiers)
    IN  /\ n > 0
        /\ call.data # None
        /\ Len(call.data[1].windows) = 2
        /\ \A i \in 1..2 :
             /\ call.data[1].windows[i].utilization >= 0
             /\ call.data[1].windows[i].utilization < 1000
             /\ call.data[1].windows[i].utilization = (call.secs % 100) * 10
        /\ \E k \in 0..(n - 1) :
             /\ k = (call.secs \div 30) % n
             /\ call.data[1].account_tier = Some(call.tiers[k + 1])

\* A call at 12.3 s: utilization 23%, the first tier again (index 4 mod 4)
C21_Witness ==
  /\ d_out # None
  /\ d_out[1].secs = 123
  /\ d_out[1].data[1].windows[1].utilization = 230
  /\ d_out[1].data[1].account_tier = Some(tier_info("Free"))


(***************************************************************************)
(* C22  Unknown tier values.  When the profile response names a            *)
(* rate_limit_tier that is not one of the four known values, a finished    *)
(* fetch of an authorised provider has succeeded and its snapshot carries  *)
(* a tier with a label and a colour.                                       *)
(***************************************************************************)
C22_UnknownTierFallback ==
  \A t \in ProviderThreads :
    (/\ p_server.fault = "profile_new_tier"
     /\ Authorised
     /\ p_threads[t].pc = "idle"
     /\ p_threads[t].fetches > 0) =>
      /\ p_threads[t].result # Some(None)
      /\ p_threads[t].result[1][1].account_tier # None


(***************************************************************************)
(* C23  A missing reset time never blocks rendering.  After rebuild_ui has *)
(* rendered the snapshot of a usage response whose 5h bucket is present    *)
(* without resets_at, the snapshot has a 5h Limit window and the menu has  *)
(* a row with that label and its percent and no reset text.                *)
(***************************************************************************)
C23_MissingResetStillRendered ==
  \A u \in UsageResponses :
    (/\ last_data = Some(Some(into_usage_data(u, None)))
     /\ u.five_hour # None
     /\ u.five_hour[1].resets_at = None) =>
      /\ \E i \in DOMAIN last_data[1][1].windows :
           last_data[1][1].windows[i].title = "5h Limit"
      /\ \E i \in DOMAIN menu :
           /\ menu[i].kind = "bucket"
           /\ menu[i].text \in {"5h Limit  30%", "5h Limit  70%"}
           /\ menu[i].sub = None

(***************************************************************************)
(* C24  Utilization is clamped to [0,100].  After a snapshot has been      *)
(* rendered, in Usage and in Remaining mode, the two numbers of the tray   *)
(* and the number of every window row of the menu lie within 0..100.       *)
(***************************************************************************)
ClampedTrayLines ==
  { label \o " " \o PadLeft(FmtNat(n), width) \o "%" :
      label \in {"5h", "7d", "--"}, n \in 0..100, width \in 1..3 }

C24_UtilizationClamped ==
  (last_data # None /\ last_data[1] # None) =>
    /\ tray.line1 \in ClampedTrayLines
    /\ tray.line2 \in ClampedTrayLines
    /\ \A i \in DOMAIN menu :
         menu[i].kind = "bucket" =>
           /\ AsI64(menu[i].value) \in 0..100
           /\ menu[i].value \in 0..1000

(***************************************************************************)
(* C25  Extra-usage block.  A rendered snapshot carries api_usage exactly  *)
(* when the usage response it was made from has extra_usage with           *)
(* is_enabled; the menu holds the separator, the Extra Usage header and    *)
(* the Spent row, one after the other, exactly when the snapshot carries   *)
(* api_usage; and the window rows are those of the snapshot's windows, in  *)
(* the order 5h Limit, 7d Limit, 7d Sonnet, 7d Opus.                       *)
(***************************************************************************)
WindowRank(title) ==
  CASE title = "5h Limit" -> 1 [] title = "7d Limit" -> 2
    [] title = "7d Sonnet" -> 3 [] title = "7d Opus" -> 4 [] OTHER -> 0

HasExtraBlock ==
  \E i \in DOMAIN menu :
    /\ i + 2 \in DOMAIN menu
    /\ menu[i].kind = "separator"
    /\ menu[i + 1] = Item("label", "Extra Usage", None, 0)
    /\ menu[i + 2].kind = "key_value"
    /\ menu[i + 2].text = "Spent"

IsBucketRow(item) == item.kind = "bucket"

C25_ExtraUsageBlock ==
  (last_data # None /\ last_data[1] # None) =>
    LET data == last_data[1][1]
        rows == SelectSeq(menu, IsBucketRow)
    IN  /\ \A u \in UsageResponses : \A p \in Profiles :
             data = into_usage_data(u, p) =>
               (data.api_usage # None <=>
                  (u.extra_usage # None /\ u.extra_usage[1].is_enabled))
        /\ HasExtraBlock <=> data.api_usage # None
        /\ \A i, j \in DOMAIN data.windows :
             i < j => /\ WindowRank(data.windows[i].title) > 0
                      /\ WindowRank(data.windows[i].title) < WindowRank(data.windows[j].title)
        /\ Len(rows) = Len(data.windows)
        /\ \A i \in DOMAIN rows :
             rows[i].text =
               data.windows[i].title \o "  " \o FmtInt(AsI64(rows[i].value)) \o "%"

\* All four windows and the extra usage have been rendered
C25_Witness ==
  /\ last_data # None
  /\ last_data[1] # None
  /\ last_data[1][1].api_usage # None
  /\ Len(last_data[1][1].windows) = 4
  /\ HasExtraBlock
  /\ Len(SelectSeq(menu, IsBucketRow)) = 4

(***************************************************************************)
(* C30  A failed outcome changes only the tray image.  A rebuild_ui(None)  *)
(* call leaves the menu with exactly the items it had, the loading menu or *)
(* the rows of the last snapshot with the action items, leaves the display *)
(* settings alone, and sets the tray image to the failure image.           *)
(***************************************************************************)
C30_FailureLeavesMenu ==
  [][RebuildUiNone =>
       /\ menu' = menu
       /\ display' = display
       /\ placeholder' = placeholder
       /\ tray' = rebuild_ui_failed(display, placeholder)]_vars

\* A failure after a snapshot with window rows: the rows are still there
C30_Witness ==
  /\ last_data = Some(None)
  /\ tray = rebuild_ui_failed(display, placeholder)
  /\ Len(SelectSeq(menu, IsBucketRow)) >= 2
  /\ menu[Len(menu)] = quit_item


(***************************************************************************)
(* C28  HTTP requests of one ClaudeCodeProvider are serialized.  At most   *)
(* one thread is inside the request of get_inner at a time; a thread holds *)
(* the token mutex exactly while it is there, from before the request is   *)
(* sent until the body is read (or for ever, if the request hangs); and a  *)
(* thread that has re-read the keychain, or is about to call get_inner,    *)
(* does not hold the mutex.                                                *)
(***************************************************************************)
InRequest(t) == p_threads[t].pc \in {"http", "hung"}

C28_RequestsSerialized ==
  /\ Cardinality({t \in ProviderThreads : InRequest(t)}) <= 1
  /\ \A t \in ProviderThreads :
       /\ InRequest(t) <=> p_lock = t
       /\ p_threads[t].pc \in {"store", "lock"} => p_lock # t

\* One thread has read the keychain after a 401 and holds nothing, while
\* the other one is in its request
C28_Witness ==
  /\ p_threads[1].pc = "store"
  /\ p_threads[1].token_fetches = 1
  /\ p_threads[2].pc = "http"
  /\ p_lock = 2

(***************************************************************************)
(* C29  Token refresh on 401.  When the keychain cannot be read, a 401     *)
(* ends get after exactly one HTTP call, with a failure and with the       *)
(* cached token as it was.  When the keychain can be read, the cached      *)
(* token is the keychain's from the store on, whatever the token was and   *)
(* however the retry ends, and the retry is sent with it.                  *)
(***************************************************************************)
C29_RefreshOn401 ==
  \A t \in ProviderThreads :
    LET th == p_threads[t]
    IN  th.token_fetches >= 1 =>
          /\ th.sent # <<>>
          /\ p_keychain = None =>
               /\ th.http_calls = 1
               /\ Len(th.sent) = 1
               /\ th.pc \in {"done", "idle"}
               /\ th.result = Some(None)
               /\ p_token = th.sent[1]
          /\ (p_keychain # None /\ th.pc # "store") =>
               /\ p_token = p_keychain[1]
               /\ th.http_calls >= 2 => th.sent[2] = p_keychain[1]

\* The settings' token got 401, the keychain's token was stored, and the
\* retry with it failed as well: the keychain's token stays
C29_Witness ==
  \E t \in ProviderThreads :
    /\ p_threads[t].pc = "idle"
    /\ p_threads[t].sent = <<"cfg-token", "kc-token">>
    /\ p_threads[t].token_fetches = 1
    /\ p_threads[t].result = Some(None)
    /\ p_token = "kc-token"
    /\ p_server.auth = "none"

\* The keychain cannot be read: one call with the settings' token
C29_WitnessNoKeychain ==
  \E t \in ProviderThreads :
    /\ p_keychain = None
    /\ p_threads[t].pc = "idle"
    /\ p_threads[t].sent = <<"cfg-token">>
    /\ p_threads[t].token_fetches = 1
    /\ p_token = "cfg-token"


(***************************************************************************)
(* C26  Eventual config convergence.  Once the watcher has handled the     *)
(* last content change of the file and the main thread has run every       *)
(* reload handed to it, the configuration in effect is the one the file    *)
(* holds, if that parses; this also when the change came less than 200 ms  *)
(* after a reload.  No later step of the program changes the configuration *)
(* without a further event, so the state reached is the final one.         *)
(***************************************************************************)
C26_ConfigConverges ==
  (/\ w_last # None
   /\ w_reloads # <<>>
   /\ is_content_change(w_last[1].kind)
   /\ w_last[1].content # None
   /\ parse_config(w_last[1].content[1]) # None
   /\ w_queue = <<>>) =>
     w_active = parse_config(w_last[1].content[1])[1]


(***************************************************************************)
(* C27  Tray and popup agree at rest.  In the Linux adapter, when no fetch *)
(* is in flight and no UiEvent is queued, the popup shows the usage and    *)
(* the profile that the tray holds.  Stated for a tray that holds the      *)
(* result of a successful fetch, for which the popup has a rendering.      *)
(***************************************************************************)
LinuxQuiescent ==
  /\ l_chan = <<>>
  /\ l_periodic.pc = "sleeping"
  /\ \A k \in DOMAIN l_manual : l_manual[k].pc = "done"

C27_TrayAndPopupAgree ==
  (LinuxQuiescent /\ l_tray.usage # None) =>
    l_popup = update_popup(l_popup, l_tray.usage[1], l_tray.profile)

====
